---- MODULE Spec2Model ----
(***************************************************************************)
(* Model of the statistics aggregation, dashboard cache and sync-status    *)
(* layer of the OTP dashboard (website/config/database.js,                 *)
(* website/api/sync-status.js, website/server-optimized.js).               *)
(*                                                                         *)
(* The document store is an external collaborator: a collection is a       *)
(* sequence of documents in natural (insertion) order.  Every `await` on   *)
(* the store is one step of the awaiting request, so other requests and    *)
(* the bot process can act between two awaits of one handler.              *)
(***************************************************************************)
EXTENDS Integers, Sequences, FiniteSets, TLC

VARIABLES
    now,            \* wall clock (new Date()), in half-days
    users,          \* collection MONGODB_COLLECTION ('users'), written by the bot
    website_users,  \* collection 'website_users'
    services,       \* collection 'services'
    servers,        \* collection 'servers'
    stats,          \* collection 'stats'
    botWrites,      \* writes made so far by the bot process and other outside writers
    sync,           \* one invocation of getSyncStatus (sync-status.js)
    openClients,    \* MongoClients opened by connectToDatabase and not closed
    response,       \* what the sync-status handler sent
    client,         \* Database.client: id of the MongoClient, 0 for null
    db,             \* Database.db: id of the client the handle came from, 0 for null
    isConnected,    \* Database.isConnected
    bs,             \* one invocation of Database.getBotStats
    req,            \* the website requests in flight, one record per request slot
    sinceLast,      \* history: what happened since updateDashboardStats last completed
    clients,        \* the MongoClients created by connect(), by id: their state
    dbInitialized,  \* the connection middleware's flag
    closing,        \* the client a disconnect() in flight is closing, 0 for none
    call,           \* the requests passing the middleware, one record per slot
    flags,          \* collection 'flags'
    gf,             \* the getFlags calls in flight, one record per caller
    dd,             \* one invocation of Database.getDashboardData
    api,            \* one caller of addServer and deleteServer, call after call
    ids,            \* ObjectIds the store has generated so far
    settings,       \* collection 'settings'
    gs,             \* the getSettings and updateSettings calls in flight, per caller
    uf              \* one invocation of Database.updateFlags

storeVars == <<users, website_users, services, servers, stats>>
syncVars == <<sync, openClients, response>>
dbVars == <<client, db, isConnected>>
dashVars == <<req, sinceLast>>
connVars == <<clients, dbInitialized, closing, call>>
cfgVars == <<settings, gs, uf>>
accVars == <<flags, gf, dd, api, ids, cfgVars>>
vars == <<now, botWrites, storeVars, syncVars, dbVars, bs, dashVars, connVars, accVars>>

-----------------------------------------------------------------------------
(* Bounds *)

MaxSyncDocs == 1        \* documents per collection in the sync-status runs
MaxStamp == 1           \* last_sync stamps range over 1..MaxStamp
MaxBotWrites == 1       \* writes by the bot process while a request is in flight
MaxTime == 3            \* the clock stops here
MaxStatUsers == 2       \* user records in the getBotStats runs
MaxTx == 1              \* transaction entries per user record
MaxServices == 1        \* service records in the request runs
MaxEarningsServices == 2 \* service records in the single-run earnings check
MaxServers == 1         \* server records
NumRequests == 2        \* website requests that can be in flight together
MaxClients == 3         \* MongoClients the Database instance creates
NumCallers == 2         \* getFlags calls that can be in flight together
MaxSnapshotDocs == 2     \* documents per collection in the getDashboardData runs
MaxIds == 2             \* ObjectIds the store generates
MaxDeletes == 2         \* deleteServer calls on one returned identifier
MaxFlags == 3           \* flags documents once addFlag calls have written
MaxStoredFlags == 2     \* flags documents at the start of the getFlags runs
MaxBalanceUsers == 3    \* user records in the balance runs
MaxLastSyncDocs == 2    \* documents per mirrored collection in the last_sync runs
MaxLastStamp == 2       \* last_sync stamps there range over 1..MaxLastStamp

-----------------------------------------------------------------------------
(* JavaScript values *)

Undefined == [t |-> "undefined"]
Null == [t |-> "null"]
NaN == [t |-> "NaN"]
Num(n) == [t |-> "number", v |-> n]
Str(s) == [t |-> "string", v |-> s]
DateAt(n) == [t |-> "date", v |-> n]

\* all sequences over S of length at most n
SeqsUpTo(S, n) == UNION {[1..k -> S] : k \in 0..n}

RemoveAt(s, i) == SubSeq(s, 1, i - 1) \o SubSeq(s, i + 1, Len(s))

\* collection.countDocuments()
countDocuments(coll) == Len(coll)

-----------------------------------------------------------------------------
(* website/config/database.js: getCollection and getBotStats *)

NotConnectedError == [message |-> "Database not connected. Call connect() first."]

\* if (!this.db || !this.isConnected) throw ...
getCollectionThrows == db = 0 \/ ~isConnected

\* strings are sequences of one-character strings
ToLower(c) ==
    CASE c = "N" -> "n" [] c = "U" -> "u" [] c = "M" -> "m" [] c = "B" -> "b"
      [] c = "E" -> "e" [] c = "R" -> "r" [] c = "P" -> "p" [] c = "O" -> "o"
      [] c = "G" -> "g" [] c = "H" -> "h" [] c = "T" -> "t" [] c = "C" -> "c"
      [] c = "A" -> "a" [] c = "S" -> "s" [] c = "D" -> "d" [] c = "F" -> "f"
      [] OTHER -> c

LowerCase(s) == [i \in 1..Len(s) |-> ToLower(s[i])]

Contains(s, sub) ==
    \E i \in 1..(Len(s) - Len(sub) + 1) : SubSeq(s, i, i + Len(sub) - 1) = sub

\* { $regex: /number|purchase|bought/i }
ReasonMatches(reason) ==
    /\ reason.t = "string"
    /\ \/ Contains(LowerCase(reason.v), <<"n", "u", "m", "b", "e", "r">>)
       \/ Contains(LowerCase(reason.v), <<"p", "u", "r", "c", "h", "a", "s", "e">>)
       \/ Contains(LowerCase(reason.v), <<"b", "o", "u", "g", "h", "t">>)

\* $unwind: "$transaction_history": one entry per element, user by user
RECURSIVE Unwind(_)
Unwind(coll) ==
    IF coll = <<>> THEN <<>>
    ELSE Head(coll).transaction_history \o Unwind(Tail(coll))

\* $match ... $count: the number of entries among the matching positions
CountMatching(matching) == Cardinality(matching)

RECURSIVE SumBalance(_)
SumBalance(coll) ==
    IF coll = <<>> THEN 0 ELSE Head(coll).balance + SumBalance(Tail(coll))

\* today.setHours(0, 0, 0, 0): the clock counts half-days
Midnight(t) == (t \div 2) * 2

\* yesterday.setDate(yesterday.getDate() - 1)
DayBefore(t) == t - 2

\* countDocuments({ created_at: { $gte: today } })
CountCreatedSince(coll, since) ==
    CountMatching({i \in 1..Len(coll) : coll[i].created_at >= since})

\* $group { _id: null, totalBalance: { $sum: "$balance" } }, then
\* balanceResult.length > 0 ? balanceResult[0].totalBalance : 0
AggregateBalance(coll) == IF Len(coll) > 0 THEN SumBalance(coll) ELSE 0

AggregateRecentUsers(coll, since) == CountCreatedSince(coll, since)

\* $unwind, $match created_at >= yesterday, $count
AggregateRecent(coll, since) ==
    LET txs == Unwind(coll)
    IN CountMatching({i \in 1..Len(txs) : txs[i].created_at >= since})

AggregatePurchasesOfAnyType(coll) ==
    LET txs == Unwind(coll)
    IN CountMatching({i \in 1..Len(txs) : ReasonMatches(txs[i].reason)})

\* $unwind, $match type "debit" and the reason regex, $count
AggregatePurchases(coll) ==
    LET txs == Unwind(coll)
    IN CountMatching({i \in 1..Len(txs) :
                         txs[i].type = "debit" /\ ReasonMatches(txs[i].reason)})

AggregateTodaysPurchasesNotCredit(coll, since) ==
    LET txs == Unwind(coll)
    IN CountMatching({i \in 1..Len(txs) :
                         /\ txs[i].type # "credit"
                         /\ ReasonMatches(txs[i].reason)
                         /\ txs[i].created_at >= since})

\* the same with created_at >= yesterday
AggregateTodaysPurchases(coll, since) ==
    LET txs == Unwind(coll)
    IN CountMatching({i \in 1..Len(txs) :
                         /\ txs[i].type = "debit"
                         /\ ReasonMatches(txs[i].reason)
                         /\ txs[i].created_at >= since})

ToFixed2Down(x) ==
    IF x >= 0 THEN (x \div 10) * 10 ELSE -((-x \div 10) * 10)

\* parseFloat(totalBalance.toFixed(2)); balances are in thousandths. The
\* doubles of the balances used (10.005 is 10.00500000000000078...) lie at or
\* just above their thousandths, so a sum that ends in 5 rounds upwards
ToFixed2(x) ==
    IF x >= 0 THEN ((x + 5) \div 10) * 10 ELSE -(((-x + 4) \div 10) * 10)

AllZeroStats ==
    [totalUsers |-> 0, todaysUsers |-> 0, totalBalance |-> 0, todaysTransactions |-> 0,
     totalTransactions |-> 0, todaysNumbersSold |-> 0, totalNumbersSold |-> 0]

\* the object returned at the end of the try block
BotStatsResult(l) ==
    [totalUsers |-> l.totalUsers, todaysUsers |-> l.todaysUsers,
     totalBalance |-> ToFixed2(l.totalBalance),
     todaysTransactions |-> l.todaysTransactions,
     totalTransactions |-> 0,
     todaysNumbersSold |-> l.todaysNumbersSold,
     totalNumbersSold |-> l.totalNumbersSold]

Returned(v) == [t |-> "return", value |-> v]
Thrown(e) == [t |-> "throw", error |-> e]

BotStatsCatchPartial(l, error) == Returned(BotStatsResult(l))

\* catch (error) { ...; return { totalUsers: 0, ... } }
BotStatsCatch(l, error) == Returned(AllZeroStats)

BotStatsLocals ==
    [totalUsers |-> 0, todaysUsers |-> 0, totalBalance |-> 0, yesterday |-> 0,
     todaysTransactions |-> 0, todaysNumbersSold |-> 0, totalNumbersSold |-> 0]

BotStatsIdle ==
    [pc |-> "idle", l |-> BotStatsLocals, result |-> Null, failed |-> FALSE]

ReadError(op) == [message |-> "read failed", op |-> op]

\* getBotStats(): getCollection, then await usersCollection.countDocuments()
GetBotStats ==
    /\ bs.pc = "idle"
    /\ bs' = IF getCollectionThrows
             THEN [bs EXCEPT !.pc = "done", !.failed = TRUE,
                             !.result = BotStatsCatch(bs.l, NotConnectedError)]
             ELSE [bs EXCEPT !.pc = "countTotal"]
    /\ UNCHANGED <<now, botWrites, storeVars, syncVars, dbVars, connVars, dashVars, accVars>>

BotStatsNextPc(pc) ==
    CASE pc = "countTotal" -> "countToday"
      [] pc = "countToday" -> "aggBalance"
      [] pc = "aggBalance" -> "aggRecent"
      [] pc = "aggRecent" -> "aggPurchases"
      [] pc = "aggPurchases" -> "aggTodaysPurchases"
      [] pc = "aggTodaysPurchases" -> "done"

BotStatsReads == {"countTotal", "countToday", "aggBalance", "aggRecent",
                  "aggPurchases", "aggTodaysPurchases"}

\* the read awaited at bs.pc resolves; `today` is taken when the second count
\* is issued and `yesterday` when the first transaction aggregate is issued
BotStatsReadOk ==
    /\ bs.pc \in BotStatsReads
    /\ LET l == CASE bs.pc = "countTotal" ->
                        [bs.l EXCEPT !.totalUsers = countDocuments(users)]
                  [] bs.pc = "countToday" ->
                        [bs.l EXCEPT !.todaysUsers = CountCreatedSince(users, Midnight(now))]
                  [] bs.pc = "aggBalance" ->
                        [bs.l EXCEPT !.totalBalance = AggregateBalance(users),
                                     !.yesterday = DayBefore(now)]
                  [] bs.pc = "aggRecent" ->
                        [bs.l EXCEPT !.todaysTransactions =
                                          AggregateRecent(users, bs.l.yesterday)]
                  [] bs.pc = "aggPurchases" ->
                        [bs.l EXCEPT !.totalNumbersSold = AggregatePurchases(users)]
                  [] bs.pc = "aggTodaysPurchases" ->
                        [bs.l EXCEPT !.todaysNumbersSold =
                                          AggregateTodaysPurchases(users, bs.l.yesterday)]
       IN bs' = [bs EXCEPT !.l = l,
                           !.pc = BotStatsNextPc(bs.pc),
                           !.result = IF bs.pc = "aggTodaysPurchases"
                                      THEN Returned(BotStatsResult(l)) ELSE @]
    /\ UNCHANGED <<now, botWrites, storeVars, syncVars, dbVars, connVars, dashVars, accVars>>

\* the read awaited at bs.pc rejects: control enters the catch block
BotStatsReadFail ==
    /\ bs.pc \in BotStatsReads
    /\ bs' = [bs EXCEPT !.pc = "done", !.failed = TRUE,
                        !.result = BotStatsCatch(bs.l, ReadError(bs.pc))]
    /\ UNCHANGED <<now, botWrites, storeVars, syncVars, dbVars, connVars, dashVars, accVars>>

-----------------------------------------------------------------------------
(* The bot process appends users and transaction entries *)

Balances == {-5000, 10005}
TxTypes == {"credit", "debit"}
Reasons ==
    {Str(<<"N", "u", "m", "b", "e", "r">>), Str(<<"r", "e", "f", "u", "n", "d">>),
     Str(<<"x", "B", "o", "u", "g", "h", "t">>),
     Str(<<"P", "U", "R", "C", "H", "A", "S", "E">>)}

UserDoc(b, c, h) == [balance |-> b, created_at |-> c, transaction_history |-> h]
TxEntry(ty, r, c) == [type |-> ty, reason |-> r, created_at |-> c]

BotWriteAllowed ==
    /\ bs.pc \in BotStatsReads
    /\ botWrites < MaxBotWrites

BotAddUser(b) ==
    /\ BotWriteAllowed
    /\ Len(users) < MaxStatUsers
    /\ users' = Append(users, UserDoc(b, now, <<>>))
    /\ botWrites' = botWrites + 1
    /\ UNCHANGED <<now, website_users, services, servers, stats, syncVars, dbVars, connVars, bs, dashVars, accVars>>

BotAppendTx(i, ty, r) ==
    /\ BotWriteAllowed
    /\ i \in 1..Len(users)
    /\ Len(users[i].transaction_history) < MaxTx
    /\ users' = [users EXCEPT ![i].transaction_history = Append(@, TxEntry(ty, r, now))]
    /\ botWrites' = botWrites + 1
    /\ UNCHANGED <<now, website_users, services, servers, stats, syncVars, dbVars, connVars, bs, dashVars, accVars>>

Tick ==
    /\ now < MaxTime
    /\ now' = now + 1
    /\ UNCHANGED <<botWrites, storeVars, syncVars, dbVars, connVars, bs, dashVars, accVars>>

-----------------------------------------------------------------------------
(* website/config/database.js: updateDashboardStats, clearDashboardStats *)

Rupee == "₹"

Digits == <<"0", "1", "2", "3", "4", "5", "6", "7", "8", "9">>

IsDigit(c) == \E d \in 1..10 : Digits[d] = c

DigitValue(c) == (CHOOSE d \in 1..10 : Digits[d] = c) - 1

\* length of the longest prefix of s made of digits
RECURSIVE DigitPrefix(_)
DigitPrefix(s) ==
    IF s # <<>> /\ IsDigit(Head(s)) THEN 1 + DigitPrefix(Tail(s)) ELSE 0

RECURSIVE DigitsToInt(_)
DigitsToInt(s) ==
    IF s = <<>> THEN 0 ELSE DigitsToInt(SubSeq(s, 1, Len(s) - 1)) * 10 + DigitValue(s[Len(s)])

\* String.prototype.replace(pattern, '') with a string pattern: the first
\* occurrence only
RECURSIVE RemoveFirst(_, _)
RemoveFirst(s, c) ==
    IF s = <<>> THEN <<>>
    ELSE IF Head(s) = c THEN Tail(s)
    ELSE <<Head(s)>> \o RemoveFirst(Tail(s), c)

\* parseFloat of a string: the longest numeric prefix (sign, digits, fraction),
\* NaN when there is none.  Numbers are kept in hundredths.
ParseFloatString(s) ==
    LET neg == s # <<>> /\ Head(s) = "-"
        body == IF s # <<>> /\ Head(s) \in {"-", "+"} THEN Tail(s) ELSE s
        n == DigitPrefix(body)
        rest == SubSeq(body, n + 1, Len(body))
        hasFrac == rest # <<>> /\ Head(rest) = "."
        m == IF hasFrac THEN DigitPrefix(Tail(rest)) ELSE 0
        frac == IF m = 0 THEN <<"0", "0">>
                ELSE SubSeq(SubSeq(rest, 2, m + 1) \o <<"0">>, 1, 2)
        mag == DigitsToInt(SubSeq(body, 1, n)) * 100 + DigitsToInt(frac)
    IN IF n = 0 /\ m = 0 THEN NaN
       ELSE Num(IF neg THEN -mag ELSE mag)

\* parseFloat(x): a number is converted to a string and parsed back
ParseFloat(x) ==
    CASE x.t = "number" -> x
      [] x.t = "string" -> ParseFloatString(x.v)
      [] OTHER -> NaN

TypeError == [message |-> "service.price?.replace is not a function"]

\* is service.price?.replace('₹', '') a TypeError
PriceThrows(price) == price.t \notin {"undefined", "null", "string"}

\* service.price?.replace('₹', '') || 0
PriceOperand(price) ==
    IF price.t \in {"undefined", "null"} THEN Num(0)
    ELSE LET r == RemoveFirst(price.v, Rupee)
         IN IF r = <<>> THEN Num(0) ELSE Str(r)

\* service.users || 0
UsersOrZero(u) == IF u.t = "number" THEN u.v ELSE 0

\* price * users
Times(price, n) == IF price.t = "NaN" THEN NaN ELSE Num(price.v * n)

\* sum + x
Plus(a, b) == IF a.t = "NaN" \/ b.t = "NaN" THEN NaN ELSE Num(a.v + b.v)

\* the callback of the totalEarnings reduce, for one service
EarningsStep(sum, service) ==
    Plus(sum, Times(ParseFloat(PriceOperand(service.price)), UsersOrZero(service.users)))

\* services.reduce((sum, service) => ..., 0) for totalEarnings
RECURSIVE TotalEarnings(_)
TotalEarnings(svcs) ==
    IF svcs = <<>> THEN Num(0)
    ELSE EarningsStep(TotalEarnings(SubSeq(svcs, 1, Len(svcs) - 1)), svcs[Len(svcs)])

\* services.reduce((sum, service) => sum + (service.users || 0), 0)
RECURSIVE TotalUsers(_)
TotalUsers(svcs) ==
    IF svcs = <<>> THEN 0 ELSE UsersOrZero(Head(svcs).users) + TotalUsers(Tail(svcs))

RECURSIVE IntToString(_)
IntToString(n) ==
    IF n < 10 THEN <<Digits[n + 1]>>
    ELSE IntToString(n \div 10) \o <<Digits[(n % 10) + 1]>>

\* Number.prototype.toFixed(2) of a number kept in hundredths
ToFixed2String(x) ==
    IF x.t = "NaN" THEN <<"N", "a", "N">>
    ELSE LET a == IF x.v < 0 THEN -x.v ELSE x.v
         IN (IF x.v < 0 THEN <<"-">> ELSE <<>>)
            \o IntToString(a \div 100) \o <<".">>
            \o <<Digits[((a % 100) \div 10) + 1], Digits[(a % 10) + 1]>>

\* `₹${totalEarnings.toFixed(2)}`
EarningsString(x) == Str(<<Rupee>> \o ToFixed2String(x))

\* process.env.DEFAULT_TODAYS_EARNINGS || '₹0'
DefaultTodaysEarnings == Str(<<Rupee, "0">>)
\* parseInt(process.env.DEFAULT_TODAYS_USERS) || 0
DefaultTodaysUsers == 0
\* parseInt(process.env.DEFAULT_TODAYS_SOLD) || 0
DefaultTodaysSold == 0
\* parseInt(process.env.DEFAULT_SERVICE_USERS) || 0
DefaultServiceUsers == 0

DashboardSetStamped(l, ts) ==
    [type |-> "dashboard",
     todaysEarnings |-> DefaultTodaysEarnings,
     totalEarnings |-> EarningsString(l.totalEarnings),
     todaysUsers |-> DefaultTodaysUsers,
     totalUsers |-> l.totalUsers,
     todaysSold |-> ts,
     totalSold |-> l.totalServices,
     updatedAt |-> DateAt(ts)]

\* the document the upsert leaves: the filter field and the $set fields
DashboardSet(l, ts) ==
    [type |-> "dashboard",
     todaysEarnings |-> DefaultTodaysEarnings,
     totalEarnings |-> EarningsString(l.totalEarnings),
     todaysUsers |-> DefaultTodaysUsers,
     totalUsers |-> l.totalUsers,
     todaysSold |-> DefaultTodaysSold,
     totalSold |-> l.totalServices,
     updatedAt |-> DateAt(ts)]

\* the first document matching { type: 'dashboard' }, 0 when there is none
MatchIndex(coll) ==
    IF \E i \in 1..Len(coll) : coll[i].type = "dashboard"
    THEN CHOOSE i \in 1..Len(coll) :
            /\ coll[i].type = "dashboard"
            /\ \A j \in 1..(i - 1) : coll[j].type # "dashboard"
    ELSE 0

Requests == 1..NumRequests

\* the locals of updateDashboardStats that are read again (totalServers is
\* not), and two history flags: no write to services, servers or stats has
\* reached the store since this run began (undisturbed), nor since the
\* undisturbed run that completed just before it (insuccession)
RefreshLocals ==
    [totalServices |-> 0, totalUsers |-> 0, totalEarnings |-> Num(0),
     insuccession |-> FALSE, undisturbed |-> FALSE]

RequestIdle == [pc |-> "idle", l |-> RefreshLocals, outcome |-> Null]

\* a document without its update timestamp
StripUpdatedAt(doc) == [f \in (DOMAIN doc) \ {"updatedAt"} |-> doc[f]]

Snapshot(coll) == [i \in 1..Len(coll) |-> StripUpdatedAt(coll[i])]

\* history: a write to services, servers or stats reaches the store while
\* request r is in flight
Disturb(r) == [r EXCEPT !.l.undisturbed = FALSE, !.l.insuccession = FALSE]

\* updateDashboardStats() up to its first await: the three getCollection
\* calls, then servicesCollection.countDocuments() is issued.  `since` is
\* what happened since the last completed run, `st` the stats collection now
BeginRefresh(since) ==
    IF getCollectionThrows
    THEN [RequestIdle EXCEPT !.pc = "done", !.outcome = Thrown(NotConnectedError)]
    ELSE [RequestIdle EXCEPT !.pc = "countServices",
                             !.l.insuccession = (since = "clean"),
                             !.l.undisturbed = TRUE]

\* history: a write to services, servers or stats outside updateDashboardStats
Dirty(changed) == IF changed /\ sinceLast # "none" THEN "dirty" ELSE sinceLast

\* request p goes on as r; a write disturbs the other requests in flight
Proceed(p, r, changed) ==
    [q \in Requests |->
        IF q = p THEN r ELSE IF changed THEN Disturb(req[q]) ELSE req[q]]

\* a caller invokes database.updateDashboardStats()
UpdateDashboardStats(p) ==
    /\ req[p].pc = "idle"
    /\ req' = [req EXCEPT ![p] = BeginRefresh(sinceLast)]
    /\ UNCHANGED <<now, botWrites, storeVars, syncVars, dbVars, connVars, bs, sinceLast, accVars>>

\* const totalServices = await servicesCollection.countDocuments();
RefreshCountServices(p) ==
    /\ req[p].pc = "countServices"
    /\ req' = [req EXCEPT ![p].l.totalServices = countDocuments(services),
                          ![p].pc = "countServers"]
    /\ UNCHANGED <<now, botWrites, storeVars, syncVars, dbVars, connVars, bs, sinceLast, accVars>>

\* const totalServers = await serversCollection.countDocuments();
RefreshCountServers(p) ==
    /\ req[p].pc = "countServers"
    /\ req' = [req EXCEPT ![p].pc = "findServices"]
    /\ UNCHANGED <<now, botWrites, storeVars, syncVars, dbVars, connVars, bs, sinceLast, accVars>>

\* const services = await servicesCollection.find({}).toArray(), then the two
\* reduces; a price that is neither a string nor missing throws a TypeError,
\* which the catch block rethrows
RefreshFindServices(p) ==
    /\ req[p].pc = "findServices"
    /\ req' = [req EXCEPT ![p] =
                 IF \E i \in 1..Len(services) : PriceThrows(services[i].price)
                 THEN [RequestIdle EXCEPT !.pc = "done", !.outcome = Thrown(TypeError)]
                 ELSE [@ EXCEPT !.pc = "upsert",
                                !.l.totalUsers = TotalUsers(services),
                                !.l.totalEarnings = TotalEarnings(services)]]
    /\ UNCHANGED <<now, botWrites, storeVars, syncVars, dbVars, connVars, bs, sinceLast, accVars>>

\* one of the three reads rejects; the catch block rethrows
RefreshReadFail(p) ==
    /\ req[p].pc \in {"countServices", "countServers", "findServices"}
    /\ req' = [req EXCEPT ![p] = [RequestIdle EXCEPT
                    !.pc = "done", !.outcome = Thrown(ReadError(req[p].pc))]]
    /\ UNCHANGED <<now, botWrites, storeVars, syncVars, dbVars, connVars, bs, sinceLast, accVars>>

\* the upsert has been applied: `return true`; the write to stats disturbs
\* the other requests in flight
Completed(p) ==
    [q \in Requests |->
        IF q = p
        THEN [RequestIdle EXCEPT !.pc = "done", !.outcome = Returned(TRUE),
                                 !.l.insuccession = req[p].l.insuccession]
        ELSE Disturb(req[q])]

\* statsCollection.updateOne({ type: 'dashboard' }, { $set }, { upsert: true })
\* reaches the store: a matching document is updated in place; with none, the
\* store goes on to insert one (no unique index covers `type`, so the insert
\* is not serialised against another upsert that found no match either)
RefreshUpsert(p) ==
    /\ req[p].pc = "upsert"
    /\ LET i == MatchIndex(stats)
       IN IF i # 0
          THEN /\ stats' = [stats EXCEPT ![i] = DashboardSet(req[p].l, now)]
               /\ req' = Completed(p)
               /\ sinceLast' = IF req[p].l.undisturbed THEN "clean" ELSE "dirty"
          ELSE /\ req' = [req EXCEPT ![p].pc = "insert"]
               /\ UNCHANGED <<stats, sinceLast, cfgVars>>
    /\ UNCHANGED <<now, botWrites, users, website_users, services, servers,
                   syncVars, dbVars, connVars, bs, accVars>>

\* the insert half of an upsert that matched nothing
RefreshInsert(p) ==
    /\ req[p].pc = "insert"
    /\ stats' = Append(stats, DashboardSet(req[p].l, now))
    /\ req' = Completed(p)
    /\ sinceLast' = IF req[p].l.undisturbed THEN "clean" ELSE "dirty"
    /\ UNCHANGED <<now, botWrites, users, website_users, services, servers,
                   syncVars, dbVars, connVars, bs, accVars>>

-----------------------------------------------------------------------------
(* website/server-optimized.js: the routes that change servers and services *)

NotFound == [t |-> "response", status |-> 404]

\* res.json({ success: true, ... })
Success == [t |-> "response", status |-> 200]

ServiceDoc(price, u) == [price |-> price, users |-> u, last_sync |-> Undefined]
ServerDoc == [last_sync |-> Undefined]

\* POST /add-server: await database.addServer(serverData), then
\* await database.updateDashboardStats()
AddServerRoute(p) ==
    /\ req[p].pc = "idle"
    /\ IF getCollectionThrows
       THEN /\ req' = [req EXCEPT ![p] = [RequestIdle EXCEPT
                            !.pc = "done", !.outcome = Thrown(NotConnectedError)]]
            /\ UNCHANGED <<servers, sinceLast, cfgVars>>
       ELSE /\ Len(servers) < MaxServers
            /\ servers' = Append(servers, ServerDoc)
            /\ sinceLast' = Dirty(TRUE)
            /\ req' = Proceed(p, BeginRefresh(sinceLast'), TRUE)
    /\ UNCHANGED <<now, botWrites, users, website_users, services, stats,
                   syncVars, dbVars, connVars, bs, accVars>>

\* the prefix that POST /add-service puts before the price: in this file the
\* template literal holds the three characters U+00E2 U+201A U+00B9 where the
\* other servers hold the rupee sign
StoredPrefix == <<"â", "U+201A", "¹">>

\* POST /add-service: price is stored as the prefix followed by the form's
\* price, users as the configured default; then
\* await database.updateDashboardStats()
AddServiceRoute(p, price) ==
    /\ req[p].pc = "idle"
    /\ IF getCollectionThrows
       THEN /\ req' = [req EXCEPT ![p] = [RequestIdle EXCEPT
                            !.pc = "done", !.outcome = Thrown(NotConnectedError)]]
            /\ UNCHANGED <<services, sinceLast, cfgVars>>
       ELSE /\ Len(services) < MaxServices
            /\ services' = Append(services,
                                  ServiceDoc(Str(StoredPrefix \o price), Num(DefaultServiceUsers)))
            /\ sinceLast' = Dirty(TRUE)
            /\ req' = Proceed(p, BeginRefresh(sinceLast'), TRUE)
    /\ UNCHANGED <<now, botWrites, users, website_users, servers, stats,
                   syncVars, dbVars, connVars, bs, accVars>>

\* POST /api/add-server: await database.addServer(req.body), then
\* res.json({ success: true, data: result })
ApiAddServerRoute(p) ==
    /\ req[p].pc = "idle"
    /\ IF getCollectionThrows
       THEN /\ req' = [req EXCEPT ![p] = [RequestIdle EXCEPT
                            !.pc = "done", !.outcome = Thrown(NotConnectedError)]]
            /\ UNCHANGED <<servers, sinceLast, cfgVars>>
       ELSE /\ Len(servers) < MaxServers
            /\ servers' = Append(servers, ServerDoc)
            /\ sinceLast' = Dirty(TRUE)
            /\ req' = Proceed(p, [RequestIdle EXCEPT !.pc = "done",
                                                     !.outcome = Success], TRUE)
    /\ UNCHANGED <<now, botWrites, users, website_users, services, stats,
                   syncVars, dbVars, connVars, bs, accVars>>

\* POST /api/add-service: await database.addService(req.body), which stores
\* the body as it is, then res.json({ success: true, data: result })
ApiAddServiceRoute(p, price) ==
    /\ req[p].pc = "idle"
    /\ IF getCollectionThrows
       THEN /\ req' = [req EXCEPT ![p] = [RequestIdle EXCEPT
                            !.pc = "done", !.outcome = Thrown(NotConnectedError)]]
            /\ UNCHANGED <<services, sinceLast, cfgVars>>
       ELSE /\ Len(services) < MaxServices
            /\ services' = Append(services, ServiceDoc(Str(price), Undefined))
            /\ sinceLast' = Dirty(TRUE)
            /\ req' = Proceed(p, [RequestIdle EXCEPT !.pc = "done",
                                                     !.outcome = Success], TRUE)
    /\ UNCHANGED <<now, botWrites, users, website_users, servers, stats,
                   syncVars, dbVars, connVars, bs, accVars>>

\* DELETE /delete-server/:id: the stats are refreshed only if deletedCount > 0
DeleteServerRoute(p, i) ==
    /\ req[p].pc = "idle"
    /\ IF getCollectionThrows
       THEN /\ req' = [req EXCEPT ![p] = [RequestIdle EXCEPT
                            !.pc = "done", !.outcome = Thrown(NotConnectedError)]]
            /\ UNCHANGED <<servers, sinceLast, cfgVars>>
       ELSE IF i <= Len(servers)
       THEN /\ servers' = RemoveAt(servers, i)
            /\ sinceLast' = Dirty(TRUE)
            /\ req' = Proceed(p, BeginRefresh(sinceLast'), TRUE)
       ELSE /\ req' = [req EXCEPT ![p] = [RequestIdle EXCEPT
                            !.pc = "done", !.outcome = NotFound]]
            /\ UNCHANGED <<servers, sinceLast, cfgVars>>
    /\ UNCHANGED <<now, botWrites, users, website_users, services, stats,
                   syncVars, dbVars, connVars, bs, accVars>>

\* DELETE /delete-service/:id
DeleteServiceRoute(p, i) ==
    /\ req[p].pc = "idle"
    /\ IF getCollectionThrows
       THEN /\ req' = [req EXCEPT ![p] = [RequestIdle EXCEPT
                            !.pc = "done", !.outcome = Thrown(NotConnectedError)]]
            /\ UNCHANGED <<services, sinceLast, cfgVars>>
       ELSE IF i <= Len(services)
       THEN /\ services' = RemoveAt(services, i)
            /\ sinceLast' = Dirty(TRUE)
            /\ req' = Proceed(p, BeginRefresh(sinceLast'), TRUE)
       ELSE /\ req' = [req EXCEPT ![p] = [RequestIdle EXCEPT
                            !.pc = "done", !.outcome = NotFound]]
            /\ UNCHANGED <<services, sinceLast, cfgVars>>
    /\ UNCHANGED <<now, botWrites, users, website_users, servers, stats,
                   syncVars, dbVars, connVars, bs, accVars>>

\* DELETE /delete-all-servers: deleteMany({}), then the refresh, whatever the count
DeleteAllServersRoute(p) ==
    /\ req[p].pc = "idle"
    /\ IF getCollectionThrows
       THEN /\ req' = [req EXCEPT ![p] = [RequestIdle EXCEPT
                            !.pc = "done", !.outcome = Thrown(NotConnectedError)]]
            /\ UNCHANGED <<servers, sinceLast, cfgVars>>
       ELSE /\ servers' = <<>>
            /\ sinceLast' = Dirty(servers # <<>>)
            /\ req' = Proceed(p, BeginRefresh(sinceLast'), servers # <<>>)
    /\ UNCHANGED <<now, botWrites, users, website_users, services, stats,
                   syncVars, dbVars, connVars, bs, accVars>>

\* clearDashboardStats(): deleteOne({ type: 'dashboard' }); true iff deletedCount > 0
ClearDashboardStats(p) ==
    /\ req[p].pc = "idle"
    /\ LET i == MatchIndex(stats)
       IN IF getCollectionThrows
          THEN /\ req' = [req EXCEPT ![p] = [RequestIdle EXCEPT
                               !.pc = "done", !.outcome = Thrown(NotConnectedError)]]
               /\ UNCHANGED <<stats, sinceLast, cfgVars>>
          ELSE /\ stats' = IF i # 0 THEN RemoveAt(stats, i) ELSE stats
               /\ sinceLast' = Dirty(i # 0)
               /\ req' = Proceed(p, [RequestIdle EXCEPT
                                        !.pc = "done", !.outcome = Returned(i # 0)], i # 0)
    /\ UNCHANGED <<now, botWrites, users, website_users, services, servers,
                   syncVars, dbVars, connVars, bs, accVars>>

\* the route sends its response; the slot serves the next request
Respond(p) ==
    /\ req[p].pc = "done"
    /\ req' = [req EXCEPT ![p] = RequestIdle]
    /\ UNCHANGED <<now, botWrites, storeVars, syncVars, dbVars, connVars, bs, sinceLast, accVars>>

\* the bot process writes a service record of its own
BotInsertService(doc) ==
    /\ botWrites < MaxBotWrites
    /\ Len(services) < MaxServices
    /\ services' = Append(services, doc)
    /\ botWrites' = botWrites + 1
    /\ sinceLast' = Dirty(TRUE)
    /\ req' = [q \in Requests |-> Disturb(req[q])]
    /\ UNCHANGED <<now, users, website_users, servers, stats, syncVars, dbVars, connVars, bs, accVars>>

-----------------------------------------------------------------------------
(* website/api/sync-status.js *)

\* the six countDocuments() calls of the Promise.all
CountNames == {"botUsers", "botServices", "botServers",
               "websiteUsers", "websiteServices", "websiteServers"}

\* db.collection(...) behind each count: the bot and the website side of
\* services and of servers are the same collection
CountedCollection(k) ==
    CASE k = "botUsers" -> users
      [] k = "botServices" -> services
      [] k = "botServers" -> servers
      [] k = "websiteUsers" -> website_users
      [] k = "websiteServices" -> services
      [] k = "websiteServers" -> servers

\* sort { last_sync: -1 }: a document without the field sorts as null, last
SortKey(doc) == IF doc.last_sync.t = "date" THEN doc.last_sync.v ELSE -1

findOneUnsorted(coll) ==
    IF Len(coll) = 0 THEN Null ELSE [t |-> "doc", last_sync |-> coll[1].last_sync]

\* findOne({}, { sort: { last_sync: -1 }, projection: { last_sync: 1 } })
findOneLastSync(coll) ==
    IF Len(coll) = 0 THEN Null
    ELSE LET i == CHOOSE i \in 1..Len(coll) :
                    /\ \A j \in 1..Len(coll) : SortKey(coll[j]) <= SortKey(coll[i])
                    /\ \A j \in 1..(i - 1) : SortKey(coll[j]) < SortKey(coll[i])
         IN [t |-> "doc", last_sync |-> coll[i].last_sync]

\* lastXSync?.last_sync || null
LastSyncOrNull(found) ==
    IF found.t = "doc" /\ found.last_sync.t = "date" /\ found.last_sync.v # 0
    THEN found.last_sync
    ELSE Null

SyncedGeq(bot, website) == bot >= website

\* const usersSynced = botUsersCount === websiteUsersCount;
Synced(bot, website) == bot = website

OverallSyncAny(u, s, v) == u \/ s \/ v

\* overall_sync: usersSynced && servicesSynced && serversSynced
OverallSync(u, s, v) == u /\ s /\ v

KindReport(bot, website, found) ==
    [bot |-> bot, website |-> website, synced |-> Synced(bot, website),
     last_sync |-> LastSyncOrNull(found)]

\* the value of the `return` of the try block
SyncReport(c, f, ts) ==
    [success |-> TRUE,
     data |-> [t |-> "report",
               users |-> KindReport(c["botUsers"], c["websiteUsers"], f["users"]),
               services |-> KindReport(c["botServices"], c["websiteServices"], f["services"]),
               servers |-> KindReport(c["botServers"], c["websiteServers"], f["servers"]),
               overall_sync |-> OverallSync(Synced(c["botUsers"], c["websiteUsers"]),
                                            Synced(c["botServices"], c["websiteServices"]),
                                            Synced(c["botServers"], c["websiteServers"])),
               timestamp |-> DateAt(ts)]]

SyncErrorResultGuess(error) ==
    [success |-> TRUE,
     data |-> [t |-> "report",
               users |-> KindReport(0, 0, Null),
               services |-> KindReport(0, 0, Null),
               servers |-> KindReport(0, 0, Null),
               overall_sync |-> TRUE,
               timestamp |-> DateAt(0)]]

\* the value of the `return` of the catch block
SyncErrorResult(error) ==
    [success |-> FALSE, error |-> error.message, data |-> Null]

\* module.exports handler: 200 with the result on success, 500 with it otherwise
HandlerResponse(result) ==
    [status |-> IF result.success THEN 200 ELSE 500, body |-> result]

SyncIdle ==
    [pc |-> "idle", client |-> FALSE, pending |-> {},
     counts |-> [k \in CountNames |-> 0],
     found |-> [k \in {"users", "services", "servers"} |-> Null],
     ret |-> Null, result |-> Null, failed |-> FALSE, cause |-> Null]

NoResponse == [status |-> 0, body |-> Null]

ConnectError == [message |-> "connect ECONNREFUSED"]
CountError(k) == [message |-> "count failed", op |-> k]
FindError(k) == [message |-> "find failed", op |-> k]

\* GET /api/sync-status reaches getSyncStatus(), which awaits connectToDatabase()
GetSyncStatus ==
    /\ sync.pc = "idle"
    /\ sync' = [sync EXCEPT !.pc = "connecting"]
    /\ UNCHANGED <<now, botWrites, storeVars, openClients, response, dbVars, connVars, bs, dashVars, accVars>>

\* await client.connect() resolves: the six counts are issued together
ConnectToDatabaseOk ==
    /\ sync.pc = "connecting"
    /\ sync' = [sync EXCEPT !.pc = "counting", !.client = TRUE, !.pending = CountNames]
    /\ openClients' = openClients + 1
    /\ UNCHANGED <<now, botWrites, storeVars, response, dbVars, connVars, bs, dashVars, accVars>>

\* await client.connect() rejects: connectToDatabase rethrows, the catch block
\* of getSyncStatus returns, `client` is still undefined in the finally block
ConnectToDatabaseFail ==
    /\ sync.pc = "connecting"
    /\ LET r == SyncErrorResult(ConnectError)
       IN /\ sync' = [sync EXCEPT !.pc = "done", !.ret = r, !.result = r,
                                  !.failed = TRUE, !.cause = ConnectError]
          /\ response' = HandlerResponse(r)
    /\ UNCHANGED <<now, botWrites, storeVars, openClients, dbVars, connVars, bs, dashVars, accVars>>

\* one countDocuments() of the Promise.all resolves; after the last one the
\* first findOne is issued
SyncCountOk(k) ==
    /\ sync.pc = "counting"
    /\ k \in sync.pending
    /\ sync' = [sync EXCEPT !.counts[k] = countDocuments(CountedCollection(k)),
                            !.pending = @ \ {k},
                            !.pc = IF sync.pending = {k} THEN "findUsers" ELSE "counting"]
    /\ UNCHANGED <<now, botWrites, storeVars, openClients, response, dbVars, connVars, bs, dashVars, accVars>>

\* one countDocuments() rejects: Promise.all rejects, control enters the catch
SyncCountFail(k) ==
    /\ sync.pc = "counting"
    /\ k \in sync.pending
    /\ sync' = [SyncIdle EXCEPT !.pc = "finally", !.client = sync.client,
                                !.ret = SyncErrorResult(CountError(k)),
                                !.failed = TRUE, !.cause = CountError(k)]
    /\ UNCHANGED <<now, botWrites, storeVars, openClients, response, dbVars, connVars, bs, dashVars, accVars>>

FindCollection(kind) ==
    CASE kind = "users" -> website_users
      [] kind = "services" -> services
      [] kind = "servers" -> servers

FindPc(kind) ==
    CASE kind = "users" -> "findUsers"
      [] kind = "services" -> "findServices"
      [] kind = "servers" -> "findServers"

\* await websiteXCollection.findOne(...) resolves; after the third one the
\* report is built and control enters the finally block
SyncFindOk(kind) ==
    /\ sync.pc = FindPc(kind)
    /\ LET f == [sync.found EXCEPT ![kind] = findOneLastSync(FindCollection(kind))]
       IN sync' = [sync EXCEPT
                     !.found = f,
                     !.pc = CASE kind = "users" -> "findServices"
                              [] kind = "services" -> "findServers"
                              [] kind = "servers" -> "finally",
                     !.ret = IF kind = "servers" THEN SyncReport(sync.counts, f, now)
                             ELSE @]
    /\ UNCHANGED <<now, botWrites, storeVars, openClients, response, dbVars, connVars, bs, dashVars, accVars>>

SyncFindFail(kind) ==
    /\ sync.pc = FindPc(kind)
    /\ sync' = [SyncIdle EXCEPT !.pc = "finally", !.client = sync.client,
                                !.ret = SyncErrorResult(FindError(kind)),
                                !.failed = TRUE, !.cause = FindError(kind)]
    /\ UNCHANGED <<now, botWrites, storeVars, openClients, response, dbVars, connVars, bs, dashVars, accVars>>

OpenAfterFinallySkipped(open, hasClient) == open

\* finally { if (client) { await client.close(); } }: the clients left open
OpenAfterFinally(open, hasClient) == IF hasClient THEN open - 1 ELSE open

\* the finally block has run, then the handler answers
SyncFinally ==
    /\ sync.pc = "finally"
    /\ openClients' = OpenAfterFinally(openClients, sync.client)
    /\ sync' = [sync EXCEPT !.pc = "done", !.result = sync.ret]
    /\ response' = HandlerResponse(sync.ret)
    /\ UNCHANGED <<now, botWrites, storeVars, dbVars, connVars, bs, dashVars, accVars>>

-----------------------------------------------------------------------------
(* Writers of the sync-status collections: the bot process and the website *)

LastSyncValues == {Undefined} \cup {DateAt(t) : t \in 1..MaxStamp}

SyncUserDoc == [balance |-> 0, created_at |-> 0, transaction_history |-> <<>>]
SyncServiceDoc(ls) == [price |-> Undefined, users |-> Undefined, last_sync |-> ls]
SyncServerDoc(ls) == [last_sync |-> ls]

\* the bot writes while getSyncStatus is between its connect and its last read
SyncWriteAllowed ==
    /\ sync.pc \in {"counting", "findUsers", "findServices", "findServers"}
    /\ botWrites < MaxBotWrites

SyncInsertUser ==
    /\ SyncWriteAllowed
    /\ Len(users) < MaxSyncDocs
    /\ users' = Append(users, SyncUserDoc)
    /\ botWrites' = botWrites + 1
    /\ UNCHANGED <<now, website_users, services, servers, stats, syncVars, dbVars, connVars, bs, dashVars, accVars>>

SyncDeleteUser ==
    /\ SyncWriteAllowed
    /\ Len(users) > 0
    /\ users' = Tail(users)
    /\ botWrites' = botWrites + 1
    /\ UNCHANGED <<now, website_users, services, servers, stats, syncVars, dbVars, connVars, bs, dashVars, accVars>>

SyncInsertWebsiteUser(ls) ==
    /\ SyncWriteAllowed
    /\ Len(website_users) < MaxSyncDocs
    /\ website_users' = Append(website_users, [last_sync |-> ls])
    /\ botWrites' = botWrites + 1
    /\ UNCHANGED <<now, users, services, servers, stats, syncVars, dbVars, connVars, bs, dashVars, accVars>>

SyncDeleteWebsiteUser ==
    /\ SyncWriteAllowed
    /\ Len(website_users) > 0
    /\ website_users' = Tail(website_users)
    /\ botWrites' = botWrites + 1
    /\ UNCHANGED <<now, users, services, servers, stats, syncVars, dbVars, connVars, bs, dashVars, accVars>>

SyncInsertService(ls) ==
    /\ SyncWriteAllowed
    /\ Len(services) < MaxSyncDocs
    /\ services' = Append(services, SyncServiceDoc(ls))
    /\ botWrites' = botWrites + 1
    /\ UNCHANGED <<now, users, website_users, servers, stats, syncVars, dbVars, connVars, bs, dashVars, accVars>>

SyncDeleteService ==
    /\ SyncWriteAllowed
    /\ Len(services) > 0
    /\ services' = Tail(services)
    /\ botWrites' = botWrites + 1
    /\ UNCHANGED <<now, users, website_users, servers, stats, syncVars, dbVars, connVars, bs, dashVars, accVars>>

SyncInsertServer(ls) ==
    /\ SyncWriteAllowed
    /\ Len(servers) < MaxSyncDocs
    /\ servers' = Append(servers, SyncServerDoc(ls))
    /\ botWrites' = botWrites + 1
    /\ UNCHANGED <<now, users, website_users, services, stats, syncVars, dbVars, connVars, bs, dashVars, accVars>>

SyncDeleteServer ==
    /\ SyncWriteAllowed
    /\ Len(servers) > 0
    /\ servers' = Tail(servers)
    /\ botWrites' = botWrites + 1
    /\ UNCHANGED <<now, users, website_users, services, stats, syncVars, dbVars, connVars, bs, dashVars, accVars>>

-----------------------------------------------------------------------------
(* website/config/database.js and website/server-optimized.js: the shared
   connection, and accessor operations called through it *)

Clients == 1..MaxClients

NoClients == [c \in Clients |-> "absent"]

OneClientConnected == [c \in Clients |-> IF c = 1 THEN "connected" ELSE "absent"]

\* new MongoClient(...): the next client not yet created
FreshClient ==
    CHOOSE c \in Clients :
        /\ clients[c] = "absent"
        /\ \A d \in 1..(c - 1) : clients[d] # "absent"

\* the client behind the handle that getCollection hands out is connected
Established == db # 0 /\ clients[db] = "connected"

CallIdle ==
    [pc |-> "idle", own |-> 0, op |-> "none", rejected |-> FALSE, handle |-> 0,
     established |-> FALSE, outcome |-> Null]

\* validateInput.string(value, maxLength)
Dangerous == {"<", ">", "\"", "'", "&"}

Harmless(c) == c \notin Dangerous

\* .replace(/[<>"'&]/g, '')
Sanitize(s) == SelectSeq(s, Harmless)

validateString(value, maxLength) ==
    IF value.t # "string" THEN Null
    ELSE IF Len(value.v) > maxLength THEN Null
    ELSE Str(Sanitize(value.v))

\* !x for the values validateInput.string returns
Falsy(x) == x.t = "null" \/ (x.t = "string" /\ x.v = <<>>)

ServerNameMax == 100
CountryMax == 10
FlagMax == 50

InvalidServerData ==
    [message |-> "Invalid server data: server_name, country, and flag are required"]

ServerDataRejectedNoFlag(serverData) ==
    \/ Falsy(validateString(serverData.server_name, ServerNameMax))
    \/ Falsy(validateString(serverData.country, CountryMax))

\* addServer's check of the required fields
ServerDataRejected(serverData) ==
    \/ Falsy(validateString(serverData.server_name, ServerNameMax))
    \/ Falsy(validateString(serverData.country, CountryMax))
    \/ Falsy(validateString(serverData.flag, FlagMax))

StoreError == [message |-> "store call failed"]

\* the connection middleware up to next() or to `await this.client.connect()`:
\* connect() returns this.db at once when isConnected, and otherwise creates a
\* client and assigns it to this.client before it awaits
Middleware(p) ==
    /\ call[p].pc = "idle"
    /\ IF dbInitialized
       THEN /\ call' = [call EXCEPT ![p].pc = "route"]
            /\ UNCHANGED <<client, clients, dbInitialized, cfgVars>>
       ELSE IF isConnected
       THEN /\ dbInitialized' = TRUE
            /\ call' = [call EXCEPT ![p].pc = "route"]
            /\ UNCHANGED <<client, clients, cfgVars>>
       ELSE /\ \E c \in Clients : clients[c] = "absent"
            /\ client' = FreshClient
            /\ clients' = [clients EXCEPT ![FreshClient] = "connecting"]
            /\ call' = [call EXCEPT ![p].pc = "connecting", ![p].own = FreshClient]
            /\ UNCHANGED dbInitialized
    /\ UNCHANGED <<now, botWrites, storeVars, syncVars, db, isConnected, bs,
                   dashVars, closing, accVars>>

\* `await this.client.connect()` resolves: this.db = this.client.db(dbName)
\* reads this.client again, isConnected = true, and the middleware sets
\* dbInitialized and calls next()
ConnectResolves(p) ==
    /\ call[p].pc = "connecting"
    /\ clients' = [clients EXCEPT ![call[p].own] =
                       IF @ = "connecting" THEN "connected" ELSE @]
    /\ db' = client
    /\ isConnected' = TRUE
    /\ dbInitialized' = TRUE
    /\ call' = [call EXCEPT ![p].pc = "route"]
    /\ UNCHANGED <<now, botWrites, storeVars, syncVars, client, bs, dashVars, closing, accVars>>

\* `await this.client.connect()` rejects: the catch block sets isConnected =
\* false and rethrows; the middleware logs the error and calls next()
ConnectRejects(p) ==
    /\ call[p].pc = "connecting"
    /\ clients' = [clients EXCEPT ![call[p].own] =
                       IF @ = "connecting" THEN "failed" ELSE @]
    /\ isConnected' = FALSE
    /\ call' = [call EXCEPT ![p].pc = "route"]
    /\ UNCHANGED <<now, botWrites, storeVars, syncVars, client, db, bs, dashVars,
                   dbInitialized, closing, accVars>>

\* an accessor reaches this.getCollection(name) and issues its store call
CallAccessor(r, op) ==
    IF getCollectionThrows
    THEN [r EXCEPT !.pc = "done", !.op = op, !.established = Established,
                   !.outcome = Thrown(NotConnectedError)]
    ELSE [r EXCEPT !.pc = "store", !.op = op, !.established = Established,
                   !.handle = db]

\* the route calls database.getServers()
GetServers(p) ==
    /\ call[p].pc = "route"
    /\ call' = [call EXCEPT ![p] = CallAccessor(@, "getServers")]
    /\ UNCHANGED <<now, botWrites, storeVars, syncVars, dbVars, bs, dashVars,
                   clients, dbInitialized, closing, accVars>>

\* the route calls database.addServer(serverData): the fields are validated
\* before getCollection is reached
AddServer(p, serverData) ==
    /\ call[p].pc = "route"
    /\ Len(servers) < MaxServers
    /\ call' = [call EXCEPT ![p] =
                   IF ServerDataRejected(serverData)
                   THEN [@ EXCEPT !.pc = "done", !.op = "addServer",
                                  !.rejected = TRUE,
                                  !.established = Established,
                                  !.outcome = Thrown(InvalidServerData)]
                   ELSE CallAccessor(@, "addServer")]
    /\ UNCHANGED <<now, botWrites, storeVars, syncVars, dbVars, bs, dashVars,
                   clients, dbInitialized, closing, accVars>>

\* the route calls database.deleteAllServers()
DeleteAllServers(p) ==
    /\ call[p].pc = "route"
    /\ call' = [call EXCEPT ![p] = CallAccessor(@, "deleteAllServers")]
    /\ UNCHANGED <<now, botWrites, storeVars, syncVars, dbVars, bs, dashVars,
                   clients, dbInitialized, closing, accVars>>

\* the store call resolves: find({}).toArray(), insertOne(...), deleteMany({})
StoreCallResolves(p) ==
    /\ call[p].pc = "store"
    /\ servers' = CASE call[p].op = "getServers" -> servers
                    [] call[p].op = "addServer" ->
                         IF Len(servers) < MaxServers
                         THEN Append(servers, ServerDoc) ELSE servers
                    [] call[p].op = "deleteAllServers" -> <<>>
    /\ call' = [call EXCEPT ![p].pc = "done",
                   ![p].outcome =
                       CASE call[p].op = "getServers" -> Returned(servers)
                         [] call[p].op = "addServer" -> Returned([acknowledged |-> TRUE])
                         [] call[p].op = "deleteAllServers" ->
                              Returned([deletedCount |-> Len(servers)])]
    /\ UNCHANGED <<now, botWrites, users, website_users, services, stats, syncVars,
                   dbVars, bs, dashVars, clients, dbInitialized, closing, accVars>>

\* the store call rejects; the accessor's catch block rethrows
StoreCallRejects(p) ==
    /\ call[p].pc = "store"
    /\ call' = [call EXCEPT ![p].pc = "done", ![p].outcome = Thrown(StoreError)]
    /\ UNCHANGED <<now, botWrites, storeVars, syncVars, dbVars, bs, dashVars,
                   clients, dbInitialized, closing, accVars>>

\* the request is answered; its slot serves the next request
Finish(p) ==
    /\ call[p].pc = "done"
    /\ call' = [call EXCEPT ![p] = CallIdle]
    /\ UNCHANGED <<now, botWrites, storeVars, syncVars, dbVars, bs, dashVars,
                   clients, dbInitialized, closing, accVars>>

\* disconnect() up to `await this.client.close()`
Disconnect ==
    /\ closing = 0
    /\ client # 0
    /\ closing' = client
    /\ UNCHANGED <<now, botWrites, storeVars, syncVars, dbVars, bs, dashVars,
                   clients, dbInitialized, call, accVars>>

\* close() resolves: isConnected = false
DisconnectResolves ==
    /\ closing # 0
    /\ clients' = [clients EXCEPT ![closing] = "closed"]
    /\ isConnected' = FALSE
    /\ closing' = 0
    /\ UNCHANGED <<now, botWrites, storeVars, syncVars, client, db, bs, dashVars,
                   dbInitialized, call, accVars>>

-----------------------------------------------------------------------------
(* website/config/database.js: getFlags, getDashboardData, addServer and
   deleteServer called on a Database instance *)

Callers == 1..NumCallers

\* a getFlags call: its local `flags`, and whether it has written to the store
FlagsIdle ==
    [pc |-> "idle", flags |-> <<>>, wrote |-> FALSE, startedOn |-> 0, endedOn |-> 0,
     outcome |-> Null]

\* a getDashboardData call: its locals
DashboardIdle ==
    [pc |-> "idle", botStats |-> Null, botFailed |-> FALSE, topServices |-> <<>>,
     serverCount |-> 0, outcome |-> Null]

\* the caller of addServer and deleteServer: the call in flight, and what its
\* earlier calls returned
ApiIdle ==
    [pc |-> "idle", op |-> "none", arg |-> Null, doc |-> Null, outcome |-> Null,
     before |-> <<>>, added |-> Null, deletes |-> <<>>]

\* a getSettings or updateSettings call: its argument and its local `settings`
SettingsIdle ==
    [pc |-> "idle", op |-> "none", arg |-> Null, settings |-> Null, outcome |-> Null]

\* an updateFlags call: its argument and the documents it built
UpdateFlagsIdle ==
    [pc |-> "idle", arg |-> <<>>, flagDocs |-> <<>>, outcome |-> Null]

TopLimit == 3
ObjectIdLength == 24
StatusMax == 20
DescriptionMax == 500

\* no accessor call has been made
AccIdle ==
    /\ flags = <<>>
    /\ gf = [c \in Callers |-> FlagsIdle]
    /\ dd = DashboardIdle
    /\ api = ApiIdle
    /\ ids = 0
    /\ settings = <<>>
    /\ gs = [c \in Callers |-> SettingsIdle]
    /\ uf = UpdateFlagsIdle

\* an ObjectId, by the number it encodes
ObjectId(n) == [t |-> "objectid", v |-> n]

HexDigits ==
    <<"0", "1", "2", "3", "4", "5", "6", "7", "8", "9", "a", "b", "c", "d", "e", "f">>

UpperHexDigits == <<"A", "B", "C", "D", "E", "F">>

IsHexDigit(c) ==
    \/ \E i \in 1..Len(HexDigits) : HexDigits[i] = c
    \/ \E i \in 1..Len(UpperHexDigits) : UpperHexDigits[i] = c

HexValue(c) ==
    IF \E i \in 1..Len(HexDigits) : HexDigits[i] = c
    THEN (CHOOSE i \in 1..Len(HexDigits) : HexDigits[i] = c) - 1
    ELSE (CHOOSE i \in 1..Len(UpperHexDigits) : UpperHexDigits[i] = c) + 9

\* ObjectId.prototype.toHexString(), for the ids below 16 that the model uses
ToHexString(oid) ==
    [i \in 1..ObjectIdLength |->
        IF i = ObjectIdLength THEN HexDigits[oid.v + 1] ELSE "0"]

\* new ObjectId(hexString)
RECURSIVE HexToInt(_)
HexToInt(s) ==
    IF s = <<>> THEN 0
    ELSE 16 * HexToInt(SubSeq(s, 1, Len(s) - 1)) + HexValue(s[Len(s)])

ObjectIdFromHex(s) == ObjectId(HexToInt(s))

validateObjectIdLoose(value) ==
    IF value.t # "string" \/ value.v = <<>> THEN Null
    ELSE IF Len(value.v) \in {ObjectIdLength - 1, ObjectIdLength}
            /\ \A i \in 1..Len(value.v) : IsHexDigit(value.v[i])
    THEN value
    ELSE Null

\* validateInput.objectId(value): /^[0-9a-fA-F]{24}$/
validateObjectId(value) ==
    IF value.t # "string" \/ value.v = <<>> THEN Null
    ELSE IF Len(value.v) = ObjectIdLength
            /\ \A i \in 1..Len(value.v) : IsHexDigit(value.v[i])
    THEN value
    ELSE Null

InvalidServerId == [message |-> "Invalid server ID format"]

\* validateInput.string(x, n) || fallback
StringOr(value, maxLength, fallback) ==
    IF Falsy(validateString(value, maxLength)) THEN Str(fallback)
    ELSE validateString(value, maxLength)

\* obj.f: a property the object lacks reads as undefined
Field(obj, f) == IF f \in DOMAIN obj THEN obj[f] ELSE Undefined

\* the document addServer hands to insertOne
ValidatedServer(serverData, ts) ==
    [server_name |-> validateString(serverData.server_name, ServerNameMax),
     country |-> validateString(serverData.country, CountryMax),
     flag |-> validateString(serverData.flag, FlagMax),
     status |-> StringOr(Field(serverData, "status"), StatusMax, <<"a", "c", "t", "i", "v", "e">>),
     description |-> StringOr(Field(serverData, "description"), DescriptionMax, <<>>),
     createdAt |-> DateAt(ts),
     updatedAt |-> DateAt(ts)]

\* the stored document: the store adds _id
WithId(doc, oid) == [f \in (DOMAIN doc) \cup {"_id"} |-> IF f = "_id" THEN oid ELSE doc[f]]

FirstOfAny(coll, oid) == IF coll = <<>> THEN 0 ELSE 1

\* deleteOne({ _id: objectId }): the first matching document, 0 for none
FirstWithId(coll, oid) ==
    IF \E i \in 1..Len(coll) : coll[i]._id = oid
    THEN CHOOSE i \in 1..Len(coll) :
            /\ coll[i]._id = oid
            /\ \A j \in 1..(i - 1) : coll[j]._id # oid
    ELSE 0

\* the call returns or throws: the caller is free for its next call
ApiReturn(a, op, arg, outcome) ==
    [a EXCEPT !.pc = "idle", !.op = op, !.arg = arg, !.outcome = outcome,
              !.before = servers]

\* addServer(serverData) up to `await serversCollection.insertOne(...)`
AddServerCall(serverData) ==
    /\ api.pc = "idle"
    /\ ids < MaxIds
    /\ api' = IF ServerDataRejected(serverData)
              THEN ApiReturn(api, "addServer", serverData, Thrown(InvalidServerData))
              ELSE IF getCollectionThrows
              THEN ApiReturn(api, "addServer", serverData, Thrown(NotConnectedError))
              ELSE [api EXCEPT !.pc = "insert", !.op = "addServer",
                               !.arg = serverData, !.outcome = Null,
                               !.before = servers,
                               !.doc = ValidatedServer(serverData, now)]
    /\ UNCHANGED <<now, botWrites, storeVars, syncVars, dbVars, connVars, bs, dashVars,
                   flags, gf, dd, ids, cfgVars>>

\* insertOne resolves: `return result`
InsertServerResolves ==
    /\ api.pc = "insert"
    /\ ids' = ids + 1
    /\ servers' = Append(servers, WithId(api.doc, ObjectId(ids')))
    /\ api' = [api EXCEPT !.pc = "idle", !.doc = Null,
                   !.outcome = Returned([acknowledged |-> TRUE,
                                         insertedId |-> ObjectId(ids')]),
                   !.added = [acknowledged |-> TRUE, insertedId |-> ObjectId(ids')],
                   !.deletes = <<>>]
    /\ UNCHANGED <<now, botWrites, users, website_users, services, stats, syncVars,
                   dbVars, connVars, bs, dashVars, flags, gf, dd, cfgVars>>

\* insertOne or deleteOne rejects: the catch block rethrows
ServerCallRejects ==
    /\ api.pc \in {"insert", "delete"}
    /\ api' = [api EXCEPT !.pc = "idle", !.doc = Null, !.outcome = Thrown(StoreError)]
    /\ UNCHANGED <<now, botWrites, storeVars, syncVars, dbVars, connVars, bs, dashVars,
                   flags, gf, dd, ids, cfgVars>>

\* history: the deleteServer calls made on the identifier that the last
\* successful addServer returned, as returned or as its hex string
OnAdded(a, id, outcome) ==
    IF a.added # Null
       /\ id \in {a.added.insertedId, Str(ToHexString(a.added.insertedId))}
    THEN [a EXCEPT !.deletes = Append(@, [arg |-> id, outcome |-> outcome])]
    ELSE a

\* deleteServer(id) up to `await serversCollection.deleteOne({ _id: objectId })`
DeleteServerCall(id) ==
    /\ api.pc = "idle"
    /\ Len(api.deletes) < MaxDeletes
    /\ api' = IF validateObjectId(id) = Null
              THEN OnAdded(ApiReturn(api, "deleteServer", id, Thrown(InvalidServerId)),
                           id, Thrown(InvalidServerId))
              ELSE IF getCollectionThrows
              THEN OnAdded(ApiReturn(api, "deleteServer", id, Thrown(NotConnectedError)),
                           id, Thrown(NotConnectedError))
              ELSE [api EXCEPT !.pc = "delete", !.op = "deleteServer", !.arg = id,
                               !.outcome = Null, !.before = servers,
                               !.doc = ObjectIdFromHex(validateObjectId(id).v)]
    /\ UNCHANGED <<now, botWrites, storeVars, syncVars, dbVars, connVars, bs, dashVars,
                   flags, gf, dd, ids, cfgVars>>

\* deleteOne resolves: `return result`
DeleteServerResolves ==
    /\ api.pc = "delete"
    /\ LET i == FirstWithId(servers, api.doc)
           result == Returned([acknowledged |-> TRUE,
                               deletedCount |-> IF i = 0 THEN 0 ELSE 1])
       IN /\ servers' = IF i = 0 THEN servers ELSE RemoveAt(servers, i)
          /\ api' = OnAdded([api EXCEPT !.pc = "idle", !.doc = Null,
                                        !.outcome = result],
                            api.arg, result)
    /\ UNCHANGED <<now, botWrites, users, website_users, services, stats, syncVars,
                   dbVars, connVars, bs, dashVars, flags, gf, dd, ids, cfgVars>>

\* a flags document; the glyph is written as its pair of regional-indicator
\* letters
FlagDoc(country, flag, ts) ==
    [country |-> country, flag |-> flag, createdAt |-> DateAt(ts), updatedAt |-> DateAt(ts)]

defaultFlags(ts) ==
    <<FlagDoc("India", "IN", ts), FlagDoc("USA", "US", ts), FlagDoc("UK", "GB", ts),
      FlagDoc("Canada", "CA", ts), FlagDoc("Australia", "AU", ts)>>

FoundFew(found) == Len(found) < 2

\* `if (flags.length === 0)`
FoundNone(found) == Len(found) = 0

\* flags.forEach(flag => { flagsObject[flag.country] = flag.flag }): a later
\* document of a country overwrites an earlier one
flagsObject(docs) ==
    [c \in {docs[i].country : i \in 1..Len(docs)} |->
        docs[CHOOSE i \in 1..Len(docs) :
                /\ docs[i].country = c
                /\ \A j \in (i + 1)..Len(docs) : docs[j].country # c].flag]

\* getFlags() up to `await flagsCollection.find({}).toArray()`
GetFlags(c) ==
    /\ gf[c].pc \in {"idle", "done"}
    /\ gf' = [gf EXCEPT ![c] =
                 IF getCollectionThrows
                 THEN [FlagsIdle EXCEPT !.pc = "done", !.startedOn = Len(flags),
                                        !.endedOn = Len(flags),
                                        !.outcome = Thrown(NotConnectedError)]
                 ELSE [FlagsIdle EXCEPT !.pc = "find", !.startedOn = Len(flags)]]
    /\ UNCHANGED <<now, botWrites, storeVars, syncVars, dbVars, connVars, bs, dashVars,
                   flags, dd, api, ids, cfgVars>>

\* find resolves: return the mapping, or go on to
\* `await flagsCollection.insertMany(defaultFlags)`
FlagsFindResolves(c) ==
    /\ gf[c].pc = "find"
    /\ gf' = [gf EXCEPT ![c] =
                 IF FoundNone(flags)
                 THEN [@ EXCEPT !.pc = "insert", !.flags = defaultFlags(now)]
                 ELSE [@ EXCEPT !.pc = "done", !.flags = flags,
                                !.endedOn = Len(flags),
                                !.outcome = Returned(flagsObject(flags))]]
    /\ UNCHANGED <<now, botWrites, storeVars, syncVars, dbVars, connVars, bs, dashVars,
                   flags, dd, api, ids, cfgVars>>

\* insertMany resolves: `flags = defaultFlags`
FlagsInsertResolves(c) ==
    /\ gf[c].pc = "insert"
    /\ flags' = flags \o gf[c].flags
    /\ gf' = [gf EXCEPT ![c] =
                 [@ EXCEPT !.pc = "done", !.wrote = TRUE, !.endedOn = Len(flags'),
                           !.outcome = Returned(flagsObject(gf[c].flags))]]
    /\ UNCHANGED <<now, botWrites, storeVars, syncVars, dbVars, connVars, bs, dashVars,
                   dd, api, ids, cfgVars>>

\* find or insertMany rejects: the catch block rethrows
FlagsCallRejects(c) ==
    /\ gf[c].pc \in {"find", "insert"}
    /\ gf' = [gf EXCEPT ![c] =
                 [@ EXCEPT !.pc = "done", !.endedOn = Len(flags),
                           !.outcome = Thrown(StoreError)]]
    /\ UNCHANGED <<now, botWrites, storeVars, syncVars, dbVars, connVars, bs, dashVars,
                   flags, dd, api, ids, cfgVars>>

\* the insertOne of an addFlag(flagData) call reaches the store
AddFlag(flagData) ==
    /\ ~getCollectionThrows
    /\ Len(flags) < MaxFlags
    /\ flags' = Append(flags, FlagDoc(flagData.country, flagData.flag, now))
    /\ UNCHANGED <<now, botWrites, storeVars, syncVars, dbVars, connVars, bs, dashVars,
                   gf, dd, api, ids, cfgVars>>

\* Object.entries(flagsData).map(([country, flag]) => ({ country, flag,
\* createdAt: new Date(), updatedAt: new Date() })); flagsData is given as its
\* entries, in key order
flagsArray(flagsData, ts) ==
    [i \in 1..Len(flagsData) |-> FlagDoc(flagsData[i].country, flagsData[i].flag, ts)]

UpdateFlagsSuccess == [success |-> TRUE, message |-> "Flags updated successfully"]

\* updateFlags(flagsData) up to `await flagsCollection.deleteMany({})`
UpdateFlags(flagsData) ==
    /\ uf.pc \in {"idle", "done"}
    /\ uf' = IF getCollectionThrows
             THEN [UpdateFlagsIdle EXCEPT !.pc = "done", !.arg = flagsData,
                                          !.outcome = Thrown(NotConnectedError)]
             ELSE [UpdateFlagsIdle EXCEPT !.pc = "delete", !.arg = flagsData]
    /\ UNCHANGED <<now, botWrites, storeVars, syncVars, dbVars, connVars, bs, dashVars,
                   flags, gf, dd, api, ids, settings, gs>>

\* deleteMany resolves: flagsArray is built, and `if (flagsArray.length > 0)`
\* goes on to `await flagsCollection.insertMany(flagsArray)`
UpdateFlagsDeleteResolves ==
    /\ uf.pc = "delete"
    /\ flags' = <<>>
    /\ uf' = IF Len(flagsArray(uf.arg, now)) > 0
             THEN [uf EXCEPT !.pc = "insert", !.flagDocs = flagsArray(uf.arg, now)]
             ELSE [uf EXCEPT !.pc = "done", !.outcome = Returned(UpdateFlagsSuccess)]
    /\ UNCHANGED <<now, botWrites, storeVars, syncVars, dbVars, connVars, bs, dashVars,
                   gf, dd, api, ids, settings, gs>>

\* insertMany resolves: `return { success: true, ... }`
UpdateFlagsInsertResolves ==
    /\ uf.pc = "insert"
    /\ flags' = flags \o uf.flagDocs
    /\ uf' = [uf EXCEPT !.pc = "done", !.outcome = Returned(UpdateFlagsSuccess)]
    /\ UNCHANGED <<now, botWrites, storeVars, syncVars, dbVars, connVars, bs, dashVars,
                   gf, dd, api, ids, settings, gs>>

\* deleteMany or insertMany rejects: the catch block rethrows
UpdateFlagsRejects ==
    /\ uf.pc \in {"delete", "insert"}
    /\ uf' = [uf EXCEPT !.pc = "done", !.outcome = Thrown(StoreError)]
    /\ UNCHANGED <<now, botWrites, storeVars, syncVars, dbVars, connVars, bs, dashVars,
                   flags, gf, dd, api, ids, settings, gs>>

(* website/config/database.js: getSettings and updateSettings *)

\* the settings document getSettings builds when it found none: the
\* process.env defaults are unset, so every text setting is ''
SettingsDoc(channel, createdAt, updatedAt) ==
    [type |-> Str(<<"b", "o", "t", "_", "s", "e", "t", "t", "i", "n", "g", "s">>),
     channel |-> channel, createdAt |-> createdAt, updatedAt |-> updatedAt]

BotSettings == SettingsDoc(Null, Null, Null).type

defaultSettings(ts) == SettingsDoc(Str(<<>>), DateAt(ts), DateAt(ts))

\* the positions of the documents matching { type: 'bot_settings' }
BotSettingsAt(coll) == {i \in 1..Len(coll) : coll[i].type = BotSettings}

\* findOne({ type: 'bot_settings' }): the first match in store order, or null
findOneBotSettings(coll) ==
    IF BotSettingsAt(coll) = {}
    THEN Null
    ELSE coll[CHOOSE i \in BotSettingsAt(coll) : \A j \in BotSettingsAt(coll) : i <= j]

\* getSettings() up to `await settingsCollection.findOne({ type: 'bot_settings' })`
GetSettings(c) ==
    /\ gs[c].pc \in {"idle", "done"}
    /\ gs' = [gs EXCEPT ![c] =
                 IF getCollectionThrows
                 THEN [SettingsIdle EXCEPT !.pc = "done", !.op = "getSettings",
                                           !.outcome = Thrown(NotConnectedError)]
                 ELSE [SettingsIdle EXCEPT !.pc = "find", !.op = "getSettings"]]
    /\ UNCHANGED <<now, botWrites, storeVars, syncVars, dbVars, connVars, bs, dashVars,
                   flags, gf, dd, api, ids, settings, uf>>

\* findOne resolves: `if (!settings)` builds the defaults and goes on to
\* `await settingsCollection.insertOne(settings)`; otherwise `return settings`
SettingsFindResolves(c) ==
    /\ gs[c].pc = "find"
    /\ gs' = [gs EXCEPT ![c] =
                 IF findOneBotSettings(settings) = Null
                 THEN [@ EXCEPT !.pc = "insert", !.settings = defaultSettings(now)]
                 ELSE [@ EXCEPT !.pc = "done",
                                !.settings = findOneBotSettings(settings),
                                !.outcome = Returned(findOneBotSettings(settings))]]
    /\ UNCHANGED <<now, botWrites, storeVars, syncVars, dbVars, connVars, bs, dashVars,
                   flags, gf, dd, api, ids, settings, uf>>

\* insertOne resolves: `return settings`
SettingsInsertResolves(c) ==
    /\ gs[c].pc = "insert"
    /\ settings' = Append(settings, gs[c].settings)
    /\ gs' = [gs EXCEPT ![c] =
                 [@ EXCEPT !.pc = "done", !.outcome = Returned(gs[c].settings)]]
    /\ UNCHANGED <<now, botWrites, storeVars, syncVars, dbVars, connVars, bs, dashVars,
                   flags, gf, dd, api, ids, uf>>

\* { ...settingsData, updatedAt: new Date() }
SettingsSet(settingsData, ts) ==
    [type |-> settingsData.type, channel |-> settingsData.channel, updatedAt |-> DateAt(ts)]

\* updateSettings(settingsData) up to `await settingsCollection.updateOne(...)`
UpdateSettings(c, settingsData) ==
    /\ gs[c].pc \in {"idle", "done"}
    /\ gs' = [gs EXCEPT ![c] =
                 IF getCollectionThrows
                 THEN [SettingsIdle EXCEPT !.pc = "done", !.op = "updateSettings",
                                           !.arg = settingsData,
                                           !.outcome = Thrown(NotConnectedError)]
                 ELSE [SettingsIdle EXCEPT !.pc = "update", !.op = "updateSettings",
                                           !.arg = settingsData,
                                           !.settings = SettingsSet(settingsData, now)]]
    /\ UNCHANGED <<now, botWrites, storeVars, syncVars, dbVars, connVars, bs, dashVars,
                   flags, gf, dd, api, ids, settings, uf>>

\* $set: a field that settingsData has replaces the document's, `type` included
SetSettings(doc, set) ==
    [type |-> IF set.type = Undefined THEN doc.type ELSE set.type,
     channel |-> IF set.channel = Undefined THEN doc.channel ELSE set.channel,
     createdAt |-> doc.createdAt,
     updatedAt |-> set.updatedAt]

\* updateOne({ type: 'bot_settings' }, { $set }, { upsert: true }) applied by
\* the store in one step: the first match is updated, or a document is
\* inserted that is built from the filter and the $set
UpdateOneSettings(coll, set) ==
    IF BotSettingsAt(coll) = {}
    THEN Append(coll, SetSettings(SettingsDoc(Undefined, Undefined, Undefined), set))
    ELSE LET i == CHOOSE k \in BotSettingsAt(coll) : \A j \in BotSettingsAt(coll) : k <= j
         IN [coll EXCEPT ![i] = SetSettings(coll[i], set)]

\* updateOne resolves: `return result`
SettingsUpdateResolves(c) ==
    /\ gs[c].pc = "update"
    /\ settings' = UpdateOneSettings(settings, gs[c].settings)
    /\ gs' = [gs EXCEPT ![c] =
                 [@ EXCEPT !.pc = "done",
                           !.outcome = Returned([matchedCount |->
                                                    IF BotSettingsAt(settings) = {}
                                                    THEN 0 ELSE 1])]]
    /\ UNCHANGED <<now, botWrites, storeVars, syncVars, dbVars, connVars, bs, dashVars,
                   flags, gf, dd, api, ids, uf>>

\* findOne, insertOne or updateOne rejects: the catch block rethrows
SettingsCallRejects(c) ==
    /\ gs[c].pc \in {"find", "insert", "update"}
    /\ gs' = [gs EXCEPT ![c] = [@ EXCEPT !.pc = "done", !.outcome = Thrown(StoreError)]]
    /\ UNCHANGED <<now, botWrites, storeVars, syncVars, dbVars, connVars, bs, dashVars,
                   flags, gf, dd, api, ids, settings, uf>>

\* .sort({ users: -1 }): a missing users field sorts below every number
UsersSortKey(service) == IF service.users.t = "number" THEN service.users.v ELSE -1

\* find({}).sort({ users: -1 }).limit(3).toArray(): the results the store can
\* give, as sequences of positions; the order among equal keys is the store's
TopPositions(coll) ==
    LET k == IF Len(coll) < TopLimit THEN Len(coll) ELSE TopLimit
    IN {s \in [1..k -> 1..Len(coll)] :
           /\ \A i, j \in 1..k : i # j => s[i] # s[j]
           /\ \A i \in 1..(k - 1) : UsersSortKey(coll[s[i]]) >= UsersSortKey(coll[s[i + 1]])
           /\ \A i \in 1..k, m \in 1..Len(coll) :
                  (\A j \in 1..k : s[j] # m) => UsersSortKey(coll[s[i]]) >= UsersSortKey(coll[m])}

\* `₹${botStats.totalBalance.toFixed(2)}`; totalBalance is in thousandths
BalanceString(totalBalance) == EarningsString(Num(ToFixed2(totalBalance) \div 10))

\* the stats object built at the end of the try block
DashboardData(botStats, topServices, serverCount, serviceCount, ts) ==
    [todaysEarnings |-> BalanceString(botStats.totalBalance),
     totalEarnings |-> BalanceString(botStats.totalBalance),
     todaysUsers |-> botStats.todaysUsers,
     totalUsers |-> botStats.totalUsers,
     todaysSold |-> botStats.todaysNumbersSold,
     totalSold |-> botStats.totalNumbersSold,
     topServices |-> topServices,
     serverCount |-> serverCount,
     serviceCount |-> serviceCount,
     createdAt |-> DateAt(ts),
     updatedAt |-> DateAt(ts)]

\* catch (error): "Fallback to default values if bot data fails"
DashboardFallback(ts) ==
    [todaysEarnings |-> Str(<<Rupee, "0">>),
     totalEarnings |-> Str(<<Rupee, "0">>),
     todaysUsers |-> 0,
     totalUsers |-> 0,
     todaysSold |-> 0,
     totalSold |-> 0,
     topServices |-> <<>>,
     serverCount |-> 0,
     serviceCount |-> 0,
     createdAt |-> DateAt(ts),
     updatedAt |-> DateAt(ts)]

\* getDashboardData(): `await this.getBotStats()` starts getBotStats, which
\* runs to its own first await
GetDashboardData ==
    /\ dd.pc = "idle"
    /\ bs.pc = "idle"
    /\ bs' = IF getCollectionThrows
             THEN [bs EXCEPT !.pc = "done", !.failed = TRUE,
                             !.result = BotStatsCatch(bs.l, NotConnectedError)]
             ELSE [bs EXCEPT !.pc = "countTotal"]
    /\ dd' = [dd EXCEPT !.pc = "botStats"]
    /\ UNCHANGED <<now, botWrites, storeVars, syncVars, dbVars, connVars, dashVars,
                   flags, gf, api, ids, cfgVars>>

\* getBotStats has returned: botStats is its result; the two getCollection
\* calls follow, and the top services query is issued
DashboardBotStats ==
    /\ dd.pc = "botStats"
    /\ bs.pc = "done"
    /\ dd' = IF getCollectionThrows
             THEN [dd EXCEPT !.pc = "done", !.botStats = bs.result.value,
                             !.botFailed = bs.failed,
                             !.outcome = Returned(DashboardFallback(now))]
             ELSE [dd EXCEPT !.pc = "topServices", !.botStats = bs.result.value,
                             !.botFailed = bs.failed]
    /\ UNCHANGED <<now, botWrites, storeVars, syncVars, dbVars, connVars, bs, dashVars,
                   flags, gf, api, ids, cfgVars>>

\* the read awaited at dd.pc resolves; the last one is followed by `return stats`
DashboardReadOk ==
    /\ dd.pc \in {"topServices", "serverCount", "serviceCount"}
    /\ \/ /\ dd.pc = "topServices"
          /\ \E s \in TopPositions(services) :
                 dd' = [dd EXCEPT !.pc = "serverCount",
                                  !.topServices = [i \in DOMAIN s |-> services[s[i]]]]
       \/ /\ dd.pc = "serverCount"
          /\ dd' = [dd EXCEPT !.pc = "serviceCount",
                              !.serverCount = countDocuments(servers)]
       \/ /\ dd.pc = "serviceCount"
          /\ dd' = [dd EXCEPT !.pc = "done",
                              !.outcome = Returned(DashboardData(dd.botStats,
                                  dd.topServices, dd.serverCount,
                                  countDocuments(services), now))]
    /\ UNCHANGED <<now, botWrites, storeVars, syncVars, dbVars, connVars, bs, dashVars,
                   flags, gf, api, ids, cfgVars>>

\* the read awaited at dd.pc rejects: the catch block returns the fallback
DashboardReadFail ==
    /\ dd.pc \in {"topServices", "serverCount", "serviceCount"}
    /\ dd' = [dd EXCEPT !.pc = "done", !.outcome = Returned(DashboardFallback(now))]
    /\ UNCHANGED <<now, botWrites, storeVars, syncVars, dbVars, connVars, bs, dashVars,
                   flags, gf, api, ids, cfgVars>>

-----------------------------------------------------------------------------
(* Specification of getBotStats runs against a users collection *)

StatTimes == {0, 2}

StatUserDocs ==
    {UserDoc(b, c, h) :
        b \in Balances, c \in StatTimes,
        h \in SeqsUpTo({TxEntry(ty, r, c2) : ty \in TxTypes, r \in Reasons, c2 \in StatTimes},
                       MaxTx)}

InitStats ==
    /\ now = 2
    /\ botWrites = 0
    /\ users \in SeqsUpTo(StatUserDocs, MaxStatUsers)
    /\ website_users = <<>>
    /\ services = <<>>
    /\ servers = <<>>
    /\ stats = <<>>
    /\ sync = SyncIdle
    /\ openClients = 0
    /\ response = NoResponse
    /\ \/ client = 0 /\ db = 0 /\ isConnected = FALSE /\ clients = NoClients
       \/ client = 1 /\ db = 1 /\ isConnected = TRUE /\ clients = OneClientConnected
    /\ dbInitialized = isConnected
    /\ closing = 0
    /\ call = [p \in Requests |-> CallIdle]
    /\ AccIdle
    /\ bs = BotStatsIdle
    /\ req = [p \in Requests |-> RequestIdle]
    /\ sinceLast = "none"

NextStats ==
    \/ GetBotStats
    \/ BotStatsReadOk
    \/ BotStatsReadFail
    \/ \E b \in Balances : BotAddUser(b)
    \/ \E i \in 1..MaxStatUsers, ty \in TxTypes, r \in Reasons : BotAppendTx(i, ty, r)
    \/ Tick

SpecStats == InitStats /\ [][NextStats]_vars

\* C1: getBotStats is fail-soft: when getCollection throws (the connection was
\* never established) or any of its reads fails, it returns the result with
\* every field 0, never a partial result, and throws nothing.
C1_FailSoftAllZero ==
    (bs.pc = "done" /\ bs.failed) => bs.result = [t |-> "return", value |-> AllZeroStats]

\* the last aggregate failed after earlier reads had produced non-zero values
C1_Witness ==
    /\ bs.pc = "done"
    /\ bs.failed
    /\ bs.l.totalUsers = 2
    /\ bs.l.totalNumbersSold > 0
    /\ bs.l.totalBalance # 0
    /\ bs.result = Returned(AllZeroStats)

-----------------------------------------------------------------------------
(* Specification of one updateDashboardStats run over a services collection *)

PriceValues ==
    {Str(<<Rupee, "1", "5", "0">>), Str(<<Rupee, "1", ".", "5">>),
     Str(<<Rupee, "a", "b", "c">>), Str(StoredPrefix \o <<"1", "5", "0">>),
     Str(<<>>), Undefined, Num(15000)}

UsersValues == {Undefined, Num(1), Num(4)}

InitEarnings ==
    /\ now = 2
    /\ botWrites = 0
    /\ users = <<>>
    /\ website_users = <<>>
    /\ services \in SeqsUpTo({ServiceDoc(pr, u) : pr \in PriceValues, u \in UsersValues},
                             MaxEarningsServices)
    /\ servers = <<>>
    /\ stats = <<>>
    /\ sync = SyncIdle
    /\ openClients = 0
    /\ response = NoResponse
    /\ client = 1
    /\ db = 1
    /\ isConnected = TRUE
    /\ clients = OneClientConnected
    /\ dbInitialized = TRUE
    /\ closing = 0
    /\ call = [p \in Requests |-> CallIdle]
    /\ AccIdle
    /\ bs = BotStatsIdle
    /\ req = [p \in Requests |-> RequestIdle]
    /\ sinceLast = "none"

NextEarnings ==
    \/ UpdateDashboardStats(1)
    \/ RefreshCountServices(1)
    \/ RefreshCountServers(1)
    \/ RefreshFindServices(1)
    \/ RefreshUpsert(1)
    \/ RefreshInsert(1)

SpecEarnings == InitEarnings /\ [][NextEarnings]_vars

\* what the claim takes a service to contribute: the price without its
\* leading currency marker, times users; 0 when the price is missing, is not
\* a string or does not parse
ClaimedContribution(service) ==
    IF service.price.t # "string" THEN Num(0)
    ELSE LET pr == service.price.v
             stripped == IF pr # <<>> /\ Head(pr) = Rupee THEN Tail(pr) ELSE pr
             parsed == ParseFloatString(stripped)
         IN IF parsed.t = "NaN" THEN Num(0)
            ELSE Num(parsed.v * UsersOrZero(service.users))

RECURSIVE ClaimedEarnings(_)
ClaimedEarnings(svcs) ==
    IF svcs = <<>> THEN Num(0)
    ELSE Plus(ClaimedContribution(Head(svcs)), ClaimedEarnings(Tail(svcs)))

\* C7: updateDashboardStats stores as total earnings the sum over all services
\* of (price without its currency marker) times users, where a service whose
\* price is missing, malformed or not a string contributes 0 for itself only,
\* and the run still completes.
C7_EarningsPerService ==
    req[1].pc = "done" =>
        /\ req[1].outcome = Returned(TRUE)
        /\ MatchIndex(stats) # 0
        /\ stats[MatchIndex(stats)].totalEarnings = EarningsString(ClaimedEarnings(services))

-----------------------------------------------------------------------------
(* Specification of the website requests that keep the dashboard stats *)

FormPrices == {<<"1", "5", "0">>}

BotServiceDocs == {ServiceDoc(Str(<<Rupee, "1", "5", "0">>), Num(4))}

InitDash ==
    /\ now = 2
    /\ botWrites = 0
    /\ users = <<>>
    /\ website_users = <<>>
    /\ services = <<>>
    /\ servers = <<>>
    /\ stats = <<>>
    /\ sync = SyncIdle
    /\ openClients = 0
    /\ response = NoResponse
    /\ client = 1
    /\ db = 1
    /\ isConnected = TRUE
    /\ clients = OneClientConnected
    /\ dbInitialized = TRUE
    /\ closing = 0
    /\ call = [p \in Requests |-> CallIdle]
    /\ AccIdle
    /\ bs = BotStatsIdle
    /\ req = [p \in Requests |-> RequestIdle]
    /\ sinceLast = "none"

NextDash ==
    \/ \E p \in Requests : UpdateDashboardStats(p)
    \/ \E p \in Requests : AddServerRoute(p)
    \/ \E p \in Requests, price \in FormPrices : AddServiceRoute(p, price)
    \/ \E p \in Requests : ApiAddServerRoute(p)
    \/ \E p \in Requests, price \in FormPrices : ApiAddServiceRoute(p, price)
    \/ \E p \in Requests, i \in 1..MaxServers : DeleteServerRoute(p, i)
    \/ \E p \in Requests, i \in 1..MaxServices : DeleteServiceRoute(p, i)
    \/ \E p \in Requests : DeleteAllServersRoute(p)
    \/ \E p \in Requests : ClearDashboardStats(p)
    \/ \E p \in Requests : RefreshCountServices(p)
    \/ \E p \in Requests : RefreshCountServers(p)
    \/ \E p \in Requests : RefreshFindServices(p)
    \/ \E p \in Requests : RefreshReadFail(p)
    \/ \E p \in Requests : RefreshUpsert(p)
    \/ \E p \in Requests : RefreshInsert(p)
    \/ \E p \in Requests : Respond(p)
    \/ \E doc \in BotServiceDocs : BotInsertService(doc)
    \/ Tick

SpecDash == InitDash /\ [][NextDash]_vars

DashboardDocs == {i \in 1..Len(stats) : stats[i].type = "dashboard"}

\* C5: after any interleaving of updateDashboardStats and clearDashboardStats
\* calls, the stats collection holds at most one document of type "dashboard".
C5_AtMostOneDashboardDoc == Cardinality(DashboardDocs) <= 1

Quiescent == \A p \in Requests : req[p].pc = "idle"

\* C6: whenever a dashboard stats record exists and no request is in progress,
\* its totalUsers, totalEarnings and totalSold are what the aggregation over
\* the current services collection produces.
C6_CacheReproducible ==
    (Quiescent /\ MatchIndex(stats) # 0) =>
        LET d == stats[MatchIndex(stats)]
        IN /\ d.totalUsers = TotalUsers(services)
           /\ d.totalEarnings = EarningsString(TotalEarnings(services))
           /\ d.totalSold = countDocuments(services)

\* the step in which request p's run of updateDashboardStats applies its upsert
Completes(p) == req[p].pc \in {"upsert", "insert"} /\ req'[p].pc = "done"

\* C8: when a run of updateDashboardStats completes right after another
\* completed run, with no write to services, servers or stats since that
\* earlier run began, the stats collection it leaves equals the one the
\* earlier run left in every field except updatedAt.
C8_RefreshTwiceIdentical ==
    [][\A p \in Requests :
         (Completes(p) /\ req[p].l.insuccession) => Snapshot(stats') = Snapshot(stats)]_vars

\* a second run has completed, at a later time than the first, over an
\* unchanged service record
C8_Witness ==
    \E p \in Requests :
        /\ req[p].pc = "done"
        /\ req[p].outcome = Returned(TRUE)
        /\ req[p].l.insuccession
        /\ Len(services) = 1
        /\ Len(stats) = 1
        /\ stats[1].totalSold = 1
        /\ stats[1].updatedAt = DateAt(3)

-----------------------------------------------------------------------------
(* Specification of getSyncStatus runs *)

InitSync ==
    /\ now = 0
    /\ botWrites = 0
    /\ users \in SeqsUpTo({SyncUserDoc}, MaxSyncDocs)
    /\ website_users \in SeqsUpTo({[last_sync |-> ls] : ls \in LastSyncValues}, MaxSyncDocs)
    /\ services \in SeqsUpTo({SyncServiceDoc(ls) : ls \in LastSyncValues}, MaxSyncDocs)
    /\ servers \in SeqsUpTo({SyncServerDoc(ls) : ls \in LastSyncValues}, MaxSyncDocs)
    /\ stats = <<>>
    /\ sync = SyncIdle
    /\ openClients = 0
    /\ response = NoResponse
    /\ client = 0
    /\ db = 0
    /\ isConnected = FALSE
    /\ clients = NoClients
    /\ dbInitialized = FALSE
    /\ closing = 0
    /\ call = [p \in Requests |-> CallIdle]
    /\ AccIdle
    /\ bs = BotStatsIdle
    /\ req = [p \in Requests |-> RequestIdle]
    /\ sinceLast = "none"

NextSync ==
    \/ GetSyncStatus
    \/ ConnectToDatabaseOk
    \/ ConnectToDatabaseFail
    \/ \E k \in CountNames : SyncCountOk(k)
    \/ \E k \in CountNames : SyncCountFail(k)
    \/ \E kind \in {"users", "services", "servers"} : SyncFindOk(kind)
    \/ \E kind \in {"users", "services", "servers"} : SyncFindFail(kind)
    \/ SyncFinally
    \/ SyncInsertUser
    \/ SyncDeleteUser
    \/ \E ls \in LastSyncValues : SyncInsertWebsiteUser(ls)
    \/ SyncDeleteWebsiteUser
    \/ \E ls \in LastSyncValues : SyncInsertService(ls)
    \/ SyncDeleteService
    \/ \E ls \in LastSyncValues : SyncInsertServer(ls)
    \/ SyncDeleteServer

SpecSync == InitSync /\ [][NextSync]_vars

SyncKinds == {"users", "services", "servers"}

SyncSucceeded == sync.pc = "done" /\ sync.result.success

\* C2: getSyncStatus is fail-hard: when connecting or any count/find read has
\* failed, the result is the structured error (success = false, the message of
\* the cause, data = null), the handler answers 500 with it, and no report
\* with synced flags or an overall_sync verdict is returned.
C2_FailHard ==
    (sync.pc = "done" /\ sync.failed) =>
        /\ sync.result = [success |-> FALSE, error |-> sync.cause.message, data |-> Null]
        /\ response = [status |-> 500, body |-> sync.result]

\* a find failed after the client was opened and all six counts had succeeded
C2_Witness ==
    /\ sync.pc = "done"
    /\ sync.failed
    /\ sync.client
    /\ sync.cause.message = "find failed"
    /\ response.status = 500

\* C3: in every successful report, each kind's synced flag is true iff the
\* reported bot count equals the reported website count.
C3_SyncedIffEqualCounts ==
    SyncSucceeded =>
        \A kind \in SyncKinds :
            sync.result.data[kind].synced
                <=> (sync.result.data[kind].bot = sync.result.data[kind].website)

\* a successful report with users unsynced (1 against 0) and servers synced (1 and 1)
C3_Witness ==
    /\ SyncSucceeded
    /\ sync.result.data.users.bot = 1
    /\ sync.result.data.users.website = 0
    /\ ~sync.result.data.users.synced
    /\ sync.result.data.servers.bot = 1
    /\ sync.result.data.servers.website = 1
    /\ sync.result.data.servers.synced

\* C4: in every successful report, overall_sync is the conjunction of the three
\* per-kind synced flags.
C4_OverallIsConjunction ==
    SyncSucceeded =>
        (sync.result.data.overall_sync
            <=> \A kind \in SyncKinds : sync.result.data[kind].synced)

\* a successful report in which only the users kind is unsynced, overall false
C4_Witness ==
    /\ SyncSucceeded
    /\ ~sync.result.data.users.synced
    /\ sync.result.data.services.synced
    /\ sync.result.data.servers.synced
    /\ ~sync.result.data.overall_sync

-----------------------------------------------------------------------------
(* Specification of requests passing the connection middleware *)

ServerInputs ==
    {[server_name |-> Str(<<"A">>), country |-> Str(<<"U", "S">>), flag |-> Str(<<"f">>)],
     [server_name |-> Undefined, country |-> Str(<<"U", "S">>), flag |-> Str(<<"f">>)],
     [server_name |-> Str(<<"<">>), country |-> Str(<<"U", "S">>), flag |-> Str(<<"f">>)]}

InitConn ==
    /\ now = 0
    /\ botWrites = 0
    /\ users = <<>>
    /\ website_users = <<>>
    /\ services = <<>>
    /\ servers = <<>>
    /\ stats = <<>>
    /\ sync = SyncIdle
    /\ openClients = 0
    /\ response = NoResponse
    /\ client = 0
    /\ db = 0
    /\ isConnected = FALSE
    /\ clients = NoClients
    /\ dbInitialized = FALSE
    /\ closing = 0
    /\ call = [p \in Requests |-> CallIdle]
    /\ AccIdle
    /\ bs = BotStatsIdle
    /\ req = [p \in Requests |-> RequestIdle]
    /\ sinceLast = "none"

NextConn ==
    \/ \E p \in Requests : Middleware(p)
    \/ \E p \in Requests : ConnectResolves(p)
    \/ \E p \in Requests : ConnectRejects(p)
    \/ \E p \in Requests : GetServers(p)
    \/ \E p \in Requests, serverData \in ServerInputs : AddServer(p, serverData)
    \/ \E p \in Requests : DeleteAllServers(p)
    \/ \E p \in Requests : StoreCallResolves(p)
    \/ \E p \in Requests : StoreCallRejects(p)
    \/ \E p \in Requests : Finish(p)
    \/ Disconnect
    \/ DisconnectResolves

SpecConn == InitConn /\ [][NextConn]_vars

\* C9: across any interleaving of requests, including requests that arrive
\* before the first connect() has completed, at most one of the clients that
\* connect() creates is connected.
C9_AtMostOneClient == Cardinality({c \in Clients : clients[c] = "connected"}) <= 1

\* C10: an accessor operation called while the client behind the database
\* handle is not connected issues no store call, and, unless validation has
\* already rejected its input, fails with the connection error.
C10_NoAccessWhenNotConnected ==
    \A p \in Requests :
        (call[p].op # "none" /\ ~call[p].established) =>
            /\ call[p].handle = 0
            /\ ~call[p].rejected => call[p].outcome = Thrown(NotConnectedError)

\* no client of the Database instance has ever been connected
NeverEstablished == \A c \in Clients : clients[c] \in {"absent", "connecting", "failed"}

\* C11: while the store connection has never been established, every accessor
\* call that has finished has failed with the connection error, also when its
\* input is one that validation rejects.
C11_ConnectionErrorForEveryInput ==
    \A p \in Requests :
        (call[p].pc = "done" /\ NeverEstablished) =>
            call[p].outcome = Thrown(NotConnectedError)

-----------------------------------------------------------------------------
(* Specification of getDashboardData runs *)

SnapshotServiceDocs ==
    {ServiceDoc(Str(<<Rupee, "1", "5", "0">>), u) : u \in {Undefined, Num(1), Num(4)}}

InitSnapshot ==
    /\ now = 2
    /\ botWrites = 0
    /\ users \in SeqsUpTo({UserDoc(b, 2, <<TxEntry("debit", r, 2)>>) :
                              b \in Balances, r \in Reasons}, MaxSnapshotDocs)
    /\ website_users = <<>>
    /\ services \in SeqsUpTo(SnapshotServiceDocs, MaxSnapshotDocs)
    /\ servers \in SeqsUpTo({ServerDoc}, MaxSnapshotDocs)
    /\ stats = <<>>
    /\ sync = SyncIdle
    /\ openClients = 0
    /\ response = NoResponse
    /\ \/ client = 0 /\ db = 0 /\ isConnected = FALSE /\ clients = NoClients
       \/ client = 1 /\ db = 1 /\ isConnected = TRUE /\ clients = OneClientConnected
    /\ dbInitialized = isConnected
    /\ closing = 0
    /\ call = [p \in Requests |-> CallIdle]
    /\ AccIdle
    /\ bs = BotStatsIdle
    /\ req = [p \in Requests |-> RequestIdle]
    /\ sinceLast = "none"

NextSnapshot ==
    \/ GetDashboardData
    \/ BotStatsReadOk
    \/ BotStatsReadFail
    \/ DashboardBotStats
    \/ DashboardReadOk
    \/ DashboardReadFail
    \/ \E b \in Balances : BotAddUser(b)
    \/ Tick

SpecSnapshot == InitSnapshot /\ [][NextSnapshot]_vars

ZeroEarnings == {Str(<<Rupee, "0">>), Str(<<Rupee, "0", ".", "0", "0">>)}

\* C12: getDashboardData never throws, and when getBotStats failed internally
\* the snapshot returned carries the all-zero metrics and an empty
\* topServices list.
C12_SnapshotNeverThrows ==
    dd.pc = "done" =>
        /\ dd.outcome.t = "return"
        /\ dd.botFailed =>
               /\ dd.outcome.value.todaysEarnings \in ZeroEarnings
               /\ dd.outcome.value.totalEarnings \in ZeroEarnings
               /\ dd.outcome.value.todaysUsers = 0
               /\ dd.outcome.value.totalUsers = 0
               /\ dd.outcome.value.todaysSold = 0
               /\ dd.outcome.value.totalSold = 0
               /\ dd.outcome.value.topServices = <<>>

-----------------------------------------------------------------------------
(* Specification of addServer and deleteServer calls by one caller *)

Repeat(c, n) == [i \in 1..n |-> c]

ServerNames ==
    {Str(<<"A">>), Str(<<"A", "<", "b">>), Str(<<"<", "&">>), Undefined, Num(7),
     Str(Repeat("n", ServerNameMax)), Str(Repeat("n", ServerNameMax + 1))}

ServerCountries ==
    {Str(<<"U", "S">>), Str(<<>>), Str(Repeat("c", CountryMax + 1))}

ServerFlags ==
    {Str(<<"f">>), Str(<<"'">>), Null, Str(Repeat("f", FlagMax + 1))}

ServerDataInputs ==
    {[server_name |-> n, country |-> c, flag |-> f] :
        n \in ServerNames, c \in ServerCountries, f \in ServerFlags}
    \cup {[server_name |-> Str(<<"A">>), country |-> Str(<<"U", "S">>),
           flag |-> Str(<<"f">>), status |-> Str(<<"o", "f", "f">>)]}

\* what a caller can pass to deleteServer: the identifier addServer returned,
\* as returned, its hex string in either case, other strings, nothing
ServerIdInputs ==
    (IF api.added = Null THEN {} ELSE {api.added.insertedId})
    \cup {Str(ToHexString(ObjectId(n))) : n \in 1..MaxIds}
    \cup {Str(Repeat("0", ObjectIdLength - 1) \o <<"B">>),
          Str(Repeat("0", ObjectIdLength - 1)), Str(Repeat("g", ObjectIdLength)),
          Str(<<"x">>), Undefined}

InitServers ==
    /\ now = 0
    /\ botWrites = 0
    /\ users = <<>>
    /\ website_users = <<>>
    /\ services = <<>>
    /\ servers = <<>>
    /\ stats = <<>>
    /\ sync = SyncIdle
    /\ openClients = 0
    /\ response = NoResponse
    /\ \/ client = 0 /\ db = 0 /\ isConnected = FALSE /\ clients = NoClients
       \/ client = 1 /\ db = 1 /\ isConnected = TRUE /\ clients = OneClientConnected
    /\ dbInitialized = isConnected
    /\ closing = 0
    /\ call = [p \in Requests |-> CallIdle]
    /\ AccIdle
    /\ bs = BotStatsIdle
    /\ req = [p \in Requests |-> RequestIdle]
    /\ sinceLast = "none"

NextServers ==
    \/ \E serverData \in ServerDataInputs : AddServerCall(serverData)
    \/ InsertServerResolves
    \/ \E id \in ServerIdInputs : DeleteServerCall(id)
    \/ DeleteServerResolves
    \/ ServerCallRejects
    \/ Tick

SpecServers == InitServers /\ [][NextServers]_vars

\* a required field as the claim describes an invalid one: not a string, over
\* its length limit, or nothing left once the dangerous characters are removed
FieldInvalid(value, maxLength) ==
    \/ value.t # "string"
    \/ Len(value.v) > maxLength
    \/ \A i \in 1..Len(value.v) : value.v[i] \in Dangerous

ServerDataInvalid(serverData) ==
    \/ FieldInvalid(serverData.server_name, ServerNameMax)
    \/ FieldInvalid(serverData.country, CountryMax)
    \/ FieldInvalid(serverData.flag, FlagMax)

\* the last call was addServer, it is over, and neither the connection nor the
\* store call failed
AddServerOver ==
    /\ api.pc = "idle"
    /\ api.op = "addServer"
    /\ api.outcome \notin {Thrown(NotConnectedError), Thrown(StoreError)}

\* C13: addServer inserts exactly one record, with createdAt and updatedAt
\* timestamps, and returns its new identifier when server_name, country and
\* flag are valid; otherwise it fails with a validation error and the server
\* collection is unchanged.
C13_AddServerInsertsOne ==
    AddServerOver =>
        IF ServerDataInvalid(api.arg)
        THEN /\ api.outcome = Thrown(InvalidServerData)
             /\ servers = api.before
        ELSE /\ api.outcome.t = "return"
             /\ Len(servers) = Len(api.before) + 1
             /\ SubSeq(servers, 1, Len(api.before)) = api.before
             /\ servers[Len(servers)].createdAt.t = "date"
             /\ servers[Len(servers)].updatedAt.t = "date"
             /\ servers[Len(servers)]._id = api.outcome.value.insertedId
             /\ \A i \in 1..Len(api.before) :
                    api.before[i]._id # api.outcome.value.insertedId

C13_Witness ==
    /\ AddServerOver
    /\ ~ServerDataInvalid(api.arg)
    /\ Len(api.before) = 1
    /\ Len(servers) = 2
    /\ servers[2].server_name = Str(<<"A", "b">>)

C13_WitnessRejected ==
    /\ AddServerOver
    /\ ServerDataInvalid(api.arg)
    /\ api.arg.server_name = Str(<<"A">>)
    /\ Len(servers) = 1

\* a deleteServer call that neither the connection nor the store call failed
DeleteAnswered(d) == d.outcome \notin {Thrown(NotConnectedError), Thrown(StoreError)}

PassedAsReturned(d) == d.arg = api.added.insertedId

PassedAsHexString(d) == d.arg = Str(ToHexString(api.added.insertedId))

DeleteCount(n) == Returned([acknowledged |-> TRUE, deletedCount |-> n])

\* the first of the calls reports a delete count of 1 and the later ones 0
OneThenZero(ds) ==
    \A k \in 1..Len(ds) : ds[k].outcome = DeleteCount(IF k = 1 THEN 1 ELSE 0)

\* C14 as stated: for every valid server-add input, addServer followed by
\* deleteServer on the returned identifier reports a delete count of 1, and
\* repeating the same deleteServer reports 0 without raising an error.
C14_DeleteReturnedIdentifier ==
    api.added # Null =>
        OneThenZero(SelectSeq(SelectSeq(api.deletes, PassedAsReturned), DeleteAnswered))

\* C14 amended: for every valid server-add input, addServer followed by
\* deleteServer on the 24-character hex string of the returned identifier
\* reports a delete count of 1, and repeating the same deleteServer reports 0
\* without raising an error.
C14_DeleteHexStringOfIdentifier ==
    api.added # Null =>
        OneThenZero(SelectSeq(SelectSeq(api.deletes, PassedAsHexString), DeleteAnswered))

C14_Witness ==
    /\ api.added # Null
    /\ api.pc = "idle"
    /\ Len(api.before) = 1
    /\ api.deletes = <<[arg |-> Str(ToHexString(api.added.insertedId)),
                        outcome |-> DeleteCount(1)],
                       [arg |-> Str(ToHexString(api.added.insertedId)),
                        outcome |-> DeleteCount(0)]>>

-----------------------------------------------------------------------------
(* Specification of getFlags calls on an empty flags collection *)

InitFlags ==
    /\ now = 0
    /\ botWrites = 0
    /\ users = <<>>
    /\ website_users = <<>>
    /\ services = <<>>
    /\ servers = <<>>
    /\ stats = <<>>
    /\ sync = SyncIdle
    /\ openClients = 0
    /\ response = NoResponse
    /\ \/ client = 0 /\ db = 0 /\ isConnected = FALSE /\ clients = NoClients
       \/ client = 1 /\ db = 1 /\ isConnected = TRUE /\ clients = OneClientConnected
    /\ dbInitialized = isConnected
    /\ closing = 0
    /\ call = [p \in Requests |-> CallIdle]
    /\ AccIdle
    /\ bs = BotStatsIdle
    /\ req = [p \in Requests |-> RequestIdle]
    /\ sinceLast = "none"

NextFlags ==
    \/ \E c \in Callers : GetFlags(c)
    \/ \E c \in Callers : FlagsFindResolves(c)
    \/ \E c \in Callers : FlagsInsertResolves(c)
    \/ \E c \in Callers : FlagsCallRejects(c)
    \/ Tick

SpecFlags == InitFlags /\ [][NextFlags]_vars

DefaultCountries == {"India", "USA", "UK", "Canada", "Australia"}

\* no getFlags call is in flight and one has returned
FlagsSettled ==
    /\ \A c \in Callers : gf[c].pc \in {"idle", "done"}
    /\ \E c \in Callers : gf[c].pc = "done" /\ gf[c].outcome.t = "return"

\* C15: starting from an empty flag collection, after any sequence or
\* interleaving of getFlags calls the flag collection contains exactly the
\* fixed default set, one entry per default country.
C15_SeedsOnce ==
    FlagsSettled =>
        /\ {flags[i].country : i \in 1..Len(flags)} = DefaultCountries
        /\ \A i, j \in 1..Len(flags) : flags[i].country = flags[j].country => i = j

-----------------------------------------------------------------------------
(* Specification of getFlags calls next to addFlag calls *)

FlagInputs ==
    {[country |-> "India", flag |-> "IN"], [country |-> "India", flag |-> "xx"],
     [country |-> "Nepal", flag |-> "NP"]}

StoredFlags ==
    SeqsUpTo({FlagDoc(f.country, f.flag, 0) : f \in FlagInputs}, MaxStoredFlags)

InitFlagsKept ==
    /\ now = 0
    /\ botWrites = 0
    /\ users = <<>>
    /\ website_users = <<>>
    /\ services = <<>>
    /\ servers = <<>>
    /\ stats = <<>>
    /\ sync = SyncIdle
    /\ openClients = 0
    /\ response = NoResponse
    /\ client = 1
    /\ db = 1
    /\ isConnected = TRUE
    /\ clients = OneClientConnected
    /\ dbInitialized = TRUE
    /\ closing = 0
    /\ call = [p \in Requests |-> CallIdle]
    /\ flags \in StoredFlags
    /\ gf = [c \in Callers |-> FlagsIdle]
    /\ dd = DashboardIdle
    /\ api = ApiIdle
    /\ ids = 0
    /\ settings = <<>>
    /\ gs = [c \in Callers |-> SettingsIdle]
    /\ uf = UpdateFlagsIdle
    /\ bs = BotStatsIdle
    /\ req = [p \in Requests |-> RequestIdle]
    /\ sinceLast = "none"

NextFlagsKept ==
    \/ \E c \in Callers : GetFlags(c)
    \/ \E c \in Callers : FlagsFindResolves(c)
    \/ \E c \in Callers : FlagsInsertResolves(c)
    \/ \E c \in Callers : FlagsCallRejects(c)
    \/ \E flagData \in FlagInputs : AddFlag(flagData)

SpecFlagsKept == InitFlagsKept /\ [][NextFlagsKept]_vars

\* the call of caller c started on a non-empty collection and has returned
ReturnedOnStored(c) ==
    /\ gf[c].pc = "done"
    /\ gf[c].outcome.t = "return"
    /\ gf[c].startedOn > 0

\* nothing has been written to the collection since the call of caller c started
Unwritten(c) == gf[c].startedOn = Len(flags)

\* C16: for every non-empty flag collection, calling getFlags twice with no
\* intervening write returns identical country-to-glyph mappings and performs
\* no write to the flag collection.
C16_TwiceIdentical ==
    /\ \A c \in Callers : ReturnedOnStored(c) => ~gf[c].wrote
    /\ \A c, d \in Callers :
           (/\ ReturnedOnStored(c) /\ Unwritten(c)
            /\ ReturnedOnStored(d) /\ Unwritten(d)) =>
               gf[c].outcome = gf[d].outcome

C16_Witness ==
    /\ ReturnedOnStored(1) /\ Unwritten(1)
    /\ ReturnedOnStored(2) /\ Unwritten(2)
    /\ Len(flags) = 2
    /\ gf[1].outcome.value = [c \in {"India"} |-> "xx"]

-----------------------------------------------------------------------------
(* getBotStats: what a run that nothing disturbed reports *)

\* the run returned from its try block and the bot wrote nothing meanwhile
StatsRunUndisturbed ==
    /\ bs.pc = "done"
    /\ ~bs.failed
    /\ botWrites = 0

PurchaseWords ==
    {<<"n", "u", "m", "b", "e", "r">>, <<"p", "u", "r", "c", "h", "a", "s", "e">>,
     <<"b", "o", "u", "g", "h", "t">>}

\* the letters of word w stand in text s from position i on, in either case
StandsAt(s, w, i) ==
    /\ i + Len(w) - 1 <= Len(s)
    /\ \A j \in 1..Len(w) : ToLower(s[i + j - 1]) = w[j]

MentionsPurchase(reason) ==
    /\ reason.t = "string"
    /\ \E w \in PurchaseWords : \E i \in 1..Len(reason.v) : StandsAt(reason.v, w, i)

\* the transaction entries, each by its user and its place in the history
Entries ==
    {<<i, j>> \in (1..Len(users)) \X (1..MaxTx) :
        j <= Len(users[i].transaction_history)}

EntryAt(e) == users[e[1]].transaction_history[e[2]]

IsPurchase(e) == EntryAt(e).type = "debit" /\ MentionsPurchase(EntryAt(e).reason)

\* C17: a transaction entry is counted as a number purchase if and only if
\* its type is "debit" and its reason contains, case-insensitively, one of
\* "number", "purchase", "bought"; a credit entry with the same reason text
\* is never counted.
C17_PurchaseIffDebitAndReason ==
    StatsRunUndisturbed =>
        /\ bs.result.value.totalNumbersSold =
               Cardinality({e \in Entries : IsPurchase(e)})
        /\ bs.result.value.todaysNumbersSold =
               Cardinality({e \in Entries :
                               IsPurchase(e) /\ EntryAt(e).created_at >= bs.l.yesterday})

\* a debit and a credit entry with the same matching reason: one is counted
C17_Witness ==
    /\ StatsRunUndisturbed
    /\ Len(users) = 2
    /\ \E i, j \in 1..Len(users) :
           /\ users[i].transaction_history # <<>>
           /\ users[j].transaction_history # <<>>
           /\ users[i].transaction_history[1].type = "debit"
           /\ users[j].transaction_history[1].type = "credit"
           /\ users[i].transaction_history[1].reason = Str(<<"N", "u", "m", "b", "e", "r">>)
           /\ users[j].transaction_history[1].reason = Str(<<"N", "u", "m", "b", "e", "r">>)
    /\ bs.result.value.totalNumbersSold = 1

NoTransactions == \A i \in 1..Len(users) : users[i].transaction_history = <<>>

\* C18: for users none of whom has any transaction entry, getBotStats reports
\* 0 for todaysTransactions, totalTransactions, totalNumbersSold and
\* todaysNumbersSold whatever the number of users, while totalUsers equals the
\* number of users.
C18_NoTransactionsAllZero ==
    (StatsRunUndisturbed /\ NoTransactions) =>
        /\ bs.result.value.todaysTransactions = 0
        /\ bs.result.value.totalTransactions = 0
        /\ bs.result.value.totalNumbersSold = 0
        /\ bs.result.value.todaysNumbersSold = 0
        /\ bs.result.value.totalUsers = Len(users)

C18_Witness ==
    /\ StatsRunUndisturbed
    /\ NoTransactions
    /\ Len(users) = 2
    /\ users[1].created_at = 2
    /\ bs.result.value.totalUsers = 2

-----------------------------------------------------------------------------
(* Specification of getBotStats runs over users that differ in balance *)

BalanceInputs == {10005, 0, -5000}

InitBalance ==
    /\ now = 2
    /\ botWrites = 0
    /\ users \in SeqsUpTo({UserDoc(b, 0, <<>>) : b \in BalanceInputs}, MaxBalanceUsers)
    /\ website_users = <<>>
    /\ services = <<>>
    /\ servers = <<>>
    /\ stats = <<>>
    /\ sync = SyncIdle
    /\ openClients = 0
    /\ response = NoResponse
    /\ \/ client = 0 /\ db = 0 /\ isConnected = FALSE /\ clients = NoClients
       \/ client = 1 /\ db = 1 /\ isConnected = TRUE /\ clients = OneClientConnected
    /\ dbInitialized = isConnected
    /\ closing = 0
    /\ call = [p \in Requests |-> CallIdle]
    /\ AccIdle
    /\ bs = BotStatsIdle
    /\ req = [p \in Requests |-> RequestIdle]
    /\ sinceLast = "none"

NextBalance ==
    \/ GetBotStats
    \/ BotStatsReadOk
    \/ BotStatsReadFail
    \/ \E b \in BalanceInputs : BotAddUser(b)
    \/ Tick

SpecBalance == InitBalance /\ [][NextBalance]_vars

\* the balances of the first n users, added up
RECURSIVE BalanceTotal(_)
BalanceTotal(n) == IF n = 0 THEN 0 ELSE BalanceTotal(n - 1) + users[n].balance

\* r is x rounded to 2 decimals, both in thousandths
RoundedTo2(r, x) ==
    /\ r % 10 = 0
    /\ r - x <= 5
    /\ x - r <= 5

\* three users with balances 10.005, 0 and -5, in any order
ExampleUsers ==
    /\ Len(users) = 3
    /\ \E i, j, k \in 1..3 :
           /\ {i, j, k} = 1..3
           /\ users[i].balance = 10005
           /\ users[j].balance = 0
           /\ users[k].balance = -5000

\* the sum of all balances rounded to 2 decimals, and the number of records
SumAndCount ==
    /\ RoundedTo2(bs.result.value.totalBalance, BalanceTotal(Len(users)))
    /\ bs.result.value.totalUsers = Len(users)

\* C19 as stated: getBotStats reports totalBalance as the sum of all users'
\* balances (negative balances included) rounded to 2 decimals and totalUsers
\* as the number of user records: for three users with balances 10.005, 0 and
\* -5 it reports totalBalance = 5.00 and totalUsers = 3.
C19_BalanceExampleFive ==
    StatsRunUndisturbed =>
        /\ SumAndCount
        /\ ExampleUsers =>
               /\ bs.result.value.totalBalance = 5000
               /\ bs.result.value.totalUsers = 3

\* C19 amended: the same with totalBalance = 5.01 for the three users with
\* balances 10.005, 0 and -5.
C19_BalanceExampleFiveOhOne ==
    StatsRunUndisturbed =>
        /\ SumAndCount
        /\ ExampleUsers =>
               /\ bs.result.value.totalBalance = 5010
               /\ bs.result.value.totalUsers = 3

C19_Witness ==
    /\ StatsRunUndisturbed
    /\ ExampleUsers
    /\ users[1].balance = -5000
    /\ bs.result.value.totalBalance = 5010
    /\ bs.result.value.totalUsers = 3

-----------------------------------------------------------------------------
(* clearDashboardStats *)

\* request p makes its clearDashboardStats call in this step and the call returns
ClearReturns(p) ==
    /\ req[p].pc = "idle"
    /\ req'[p].pc = "done"
    /\ req'[p].outcome.t = "return"

HoldsDashboardDoc(coll) == \E i \in 1..Len(coll) : coll[i].type = "dashboard"

\* C20: clearDashboardStats returns a boolean: true exactly when a dashboard
\* stats record existed and was removed by this call, false when none
\* existed; after it returns, no document with type = "dashboard" written
\* before the call remains.
C20_ClearLeavesNoDashboardDoc ==
    [][\A p \in Requests :
          ClearReturns(p) =>
              /\ req'[p].outcome.value \in BOOLEAN
              /\ req'[p].outcome.value = HoldsDashboardDoc(stats)
              /\ req'[p].outcome.value => Len(stats') = Len(stats) - 1
              /\ ~HoldsDashboardDoc(stats')]_vars

-----------------------------------------------------------------------------
(* the routes that add or delete a server or a service *)

\* request p takes its route's step in this step, and the step adds or deletes
\* a server or a service
MutatesAsRoute(p) ==
    /\ req[p].pc = "idle"
    /\ req'[p].pc # "idle"
    /\ servers' # servers \/ services' # services

\* C21: every request that successfully adds or deletes a server or a service
\* is followed, before its success response is sent, by one run of
\* updateDashboardStats; this holds for every add/delete route, including
\* /api/add-server and /api/add-service.
C21_MutationThenRefresh ==
    [][\A p \in Requests :
          MutatesAsRoute(p) =>
              /\ req'[p].pc = "countServices"
              /\ req'[p].outcome = Null]_vars

-----------------------------------------------------------------------------
(* Specification of getSyncStatus runs over documents that differ in last_sync *)

LastSyncStamps == {Undefined} \cup {DateAt(t) : t \in 1..MaxLastStamp}

InitLastSync ==
    /\ now = 0
    /\ botWrites = 0
    /\ users \in SeqsUpTo({SyncUserDoc}, MaxSyncDocs)
    /\ website_users \in SeqsUpTo({[last_sync |-> ls] : ls \in LastSyncStamps}, MaxLastSyncDocs)
    /\ services \in SeqsUpTo({SyncServiceDoc(ls) : ls \in LastSyncStamps}, MaxLastSyncDocs)
    /\ servers \in SeqsUpTo({SyncServerDoc(ls) : ls \in LastSyncStamps}, MaxSyncDocs)
    /\ stats = <<>>
    /\ sync = SyncIdle
    /\ openClients = 0
    /\ response = NoResponse
    /\ client = 0
    /\ db = 0
    /\ isConnected = FALSE
    /\ clients = NoClients
    /\ dbInitialized = FALSE
    /\ closing = 0
    /\ call = [p \in Requests |-> CallIdle]
    /\ AccIdle
    /\ bs = BotStatsIdle
    /\ req = [p \in Requests |-> RequestIdle]
    /\ sinceLast = "none"

SpecLastSync == InitLastSync /\ [][NextSync]_vars

\* getSyncStatus returned its report and nothing was written during the run
SyncReportUndisturbed ==
    /\ sync.pc = "done"
    /\ sync.result.success
    /\ botWrites = 0

\* the last_sync stamps present on the documents of a collection
StampsOf(coll) ==
    {coll[i].last_sync.v : i \in {j \in 1..Len(coll) : coll[j].last_sync.t = "date"}}

\* the most recent of them, null when there is none
MostRecent(coll) ==
    IF StampsOf(coll) = {} THEN Null
    ELSE DateAt(CHOOSE m \in StampsOf(coll) : \A n \in StampsOf(coll) : n <= m)

\* C22: in a successful sync report, each kind's last_sync is the most recent
\* last_sync value present on any document of that kind's mirrored
\* collection, and is null, without an error, when no document of the
\* collection has the field or the collection is empty.
C22_LastSyncMostRecent ==
    SyncReportUndisturbed =>
        /\ sync.result.data.users.last_sync = MostRecent(website_users)
        /\ sync.result.data.services.last_sync = MostRecent(services)
        /\ sync.result.data.servers.last_sync = MostRecent(servers)

\* the most recent stamp stands on the second document; another collection has
\* documents but no stamp, a third is empty
C22_Witness ==
    /\ SyncReportUndisturbed
    /\ Len(website_users) = 2
    /\ website_users[1].last_sync = DateAt(1)
    /\ website_users[2].last_sync = DateAt(2)
    /\ sync.result.data.users.last_sync = DateAt(2)
    /\ Len(services) = 2
    /\ StampsOf(services) = {}
    /\ sync.result.data.services.last_sync = Null
    /\ servers = <<>>
    /\ sync.result.data.servers.last_sync = Null

-----------------------------------------------------------------------------
(* Specification of getBotStats runs over entries of other types *)

\* types that are neither "credit" nor "debit": another word, "debit" in
\* another case, the empty string
OtherTypes == {"bonus", "DEBIT", ""}

TypedUserDocs ==
    {UserDoc(10005, 0, <<TxEntry(ty, r, 2)>>) :
        ty \in OtherTypes \cup {"debit"}, r \in Reasons}
    \cup {UserDoc(10005, 0, <<>>)}

InitTypes ==
    /\ now = 2
    /\ botWrites = 0
    /\ users \in SeqsUpTo(TypedUserDocs, MaxStatUsers)
    /\ website_users = <<>>
    /\ services = <<>>
    /\ servers = <<>>
    /\ stats = <<>>
    /\ sync = SyncIdle
    /\ openClients = 0
    /\ response = NoResponse
    /\ \/ client = 0 /\ db = 0 /\ isConnected = FALSE /\ clients = NoClients
       \/ client = 1 /\ db = 1 /\ isConnected = TRUE /\ clients = OneClientConnected
    /\ dbInitialized = isConnected
    /\ closing = 0
    /\ call = [p \in Requests |-> CallIdle]
    /\ AccIdle
    /\ bs = BotStatsIdle
    /\ req = [p \in Requests |-> RequestIdle]
    /\ sinceLast = "none"

NextTypes ==
    \/ GetBotStats
    \/ BotStatsReadOk
    \/ BotStatsReadFail
    \/ \E b \in Balances : BotAddUser(b)
    \/ \E i \in 1..MaxStatUsers, ty \in OtherTypes, r \in Reasons : BotAppendTx(i, ty, r)
    \/ Tick

SpecTypes == InitTypes /\ [][NextTypes]_vars

OfOtherType(e) == EntryAt(e).type \notin {"credit", "debit"}

\* C23: a transaction entry whose type is neither "credit" nor "debit" is
\* never counted as a number purchase by getBotStats, whatever its reason
\* text, and its presence does not make getBotStats fail or return the
\* all-zero result.
C23_OtherTypesNotCounted ==
    StatsRunUndisturbed =>
        /\ bs.result.value.totalNumbersSold =
               Cardinality({e \in Entries : IsPurchase(e) /\ ~OfOtherType(e)})
        /\ bs.result.value.todaysNumbersSold =
               Cardinality({e \in Entries :
                               /\ IsPurchase(e)
                               /\ ~OfOtherType(e)
                               /\ EntryAt(e).created_at >= bs.l.yesterday})
        /\ bs.result.value.totalUsers = Len(users)
        /\ bs.result.value.todaysTransactions =
               Cardinality({e \in Entries : EntryAt(e).created_at >= bs.l.yesterday})

\* an entry of type "DEBIT" with a matching reason next to a debit entry with
\* the same reason: the run returns, counts one purchase and two transactions
C23_Witness ==
    /\ StatsRunUndisturbed
    /\ Len(users) = 2
    /\ \A i \in 1..2 : users[i].transaction_history # <<>>
    /\ users[1].transaction_history[1].type = "DEBIT"
    /\ users[2].transaction_history[1].type = "debit"
    /\ users[1].transaction_history[1].reason = Str(<<"N", "u", "m", "b", "e", "r">>)
    /\ users[2].transaction_history[1].reason = Str(<<"N", "u", "m", "b", "e", "r">>)
    /\ bs.result.value.totalNumbersSold = 1
    /\ bs.result.value.todaysNumbersSold = 1
    /\ bs.result.value.todaysTransactions = 2
    /\ bs.result.value.totalUsers = 2

-----------------------------------------------------------------------------
(* deleteServer *)

HexCharacters ==
    {"0", "1", "2", "3", "4", "5", "6", "7", "8", "9",
     "a", "b", "c", "d", "e", "f", "A", "B", "C", "D", "E", "F"}

\* a 24-character hexadecimal string
WellFormedId(id) ==
    /\ id.t = "string"
    /\ Len(id.v) = 24
    /\ \A i \in 1..Len(id.v) : id.v[i] \in HexCharacters

\* the last call was deleteServer, it is over, and neither the connection nor
\* the store call failed
DeleteServerOver ==
    /\ api.pc = "idle"
    /\ api.op = "deleteServer"
    /\ api.outcome \notin {Thrown(NotConnectedError), Thrown(StoreError)}

\* the records of coll whose identifier is written id
Named(coll, id) ==
    {i \in 1..Len(coll) : LowerCase(ToHexString(coll[i]._id)) = LowerCase(id.v)}

\* coll without the records at the positions in gone
Without(coll, gone) ==
    LET keep == SelectSeq([i \in 1..Len(coll) |-> i], LAMBDA i : i \notin gone)
    IN [k \in 1..Len(keep) |-> coll[keep[k]]]

\* C24: deleteServer(id) with an id that is not a 24-character hexadecimal
\* string fails without removing any record; with a well-formed id it removes
\* at most the one record having that identifier and returns the number
\* removed, where 0 (no such record) is a normal non-error result that leaves
\* the collection unchanged.
C24_DeleteServerById ==
    DeleteServerOver =>
        IF ~WellFormedId(api.arg)
        THEN /\ api.outcome.t = "throw"
             /\ servers = api.before
        ELSE /\ api.outcome.t = "return"
             /\ api.outcome.value.deletedCount = Cardinality(Named(api.before, api.arg))
             /\ api.outcome.value.deletedCount \in {0, 1}
             /\ servers = Without(api.before, Named(api.before, api.arg))
             /\ api.outcome.value.deletedCount = 0 => servers = api.before

\* the second of two records was removed by its identifier
C24_Witness ==
    /\ DeleteServerOver
    /\ WellFormedId(api.arg)
    /\ Len(api.before) = 2
    /\ Len(servers) = 1
    /\ servers[1] = api.before[1]
    /\ api.outcome.value.deletedCount = 1

-----------------------------------------------------------------------------
(* overlapping runs of updateDashboardStats *)

\* the dashboard record as findOne({ type: 'dashboard' }) reads it back
DashboardRecord(coll) == coll[MatchIndex(coll)]

\* C25: when two updateDashboardStats runs overlap, the dashboard stats record
\* left after both complete equals, in all of its fields together, the
\* snapshot written by whichever run performed its upsert last; fields from
\* the two runs are never mixed in one record.
C25_LastWriterWins ==
    [][\A p \in Requests :
          Completes(p) =>
              /\ MatchIndex(stats') # 0
              /\ DashboardRecord(stats') = DashboardSet(req[p].l, now)]_vars

-----------------------------------------------------------------------------
(* Specification of getSettings and updateSettings calls that overlap *)

MaxSettings == 2

\* what POST /bot-settings passes on: the request body, which may name `type`
SettingsInputs ==
    {[type |-> Undefined, channel |-> Str(<<"@", "c">>)],
     [type |-> Str(<<"x">>), channel |-> Undefined]}

InitSettings ==
    /\ now = 0
    /\ botWrites = 0
    /\ users = <<>>
    /\ website_users = <<>>
    /\ services = <<>>
    /\ servers = <<>>
    /\ stats = <<>>
    /\ sync = SyncIdle
    /\ openClients = 0
    /\ response = NoResponse
    /\ \/ client = 0 /\ db = 0 /\ isConnected = FALSE /\ clients = NoClients
       \/ client = 1 /\ db = 1 /\ isConnected = TRUE /\ clients = OneClientConnected
    /\ dbInitialized = isConnected
    /\ closing = 0
    /\ call = [p \in Requests |-> CallIdle]
    /\ AccIdle
    /\ bs = BotStatsIdle
    /\ req = [p \in Requests |-> RequestIdle]
    /\ sinceLast = "none"

NextSettings ==
    \/ \E c \in Callers : Len(settings) < MaxSettings /\ GetSettings(c)
    \/ \E c \in Callers : SettingsFindResolves(c)
    \/ \E c \in Callers : SettingsInsertResolves(c)
    \/ \E c \in Callers, d \in SettingsInputs :
           Len(settings) < MaxSettings /\ UpdateSettings(c, d)
    \/ \E c \in Callers : SettingsUpdateResolves(c)
    \/ \E c \in Callers : SettingsCallRejects(c)

SpecSettings == InitSettings /\ [][NextSettings]_vars

\* C26: whatever getSettings and updateSettings calls have run or are running,
\* the settings collection holds at most one document of type 'bot_settings',
\* and a getSettings call that returned, returned a document of that type
C26_OneSettingsDocument ==
    /\ Cardinality(BotSettingsAt(settings)) <= 1
    /\ \A c \in Callers :
           (gs[c].op = "getSettings" /\ gs[c].pc = "done" /\ gs[c].outcome.t = "return")
               => gs[c].outcome.value.type = BotSettings

-----------------------------------------------------------------------------
\* C27: a getBotStats result that did not come from the catch block is
\* consistent, whatever the bot appended while it was computed: no more
\* purchases today than in total, no more purchases today than transactions
\* today, no more users today than in total
C27_ResultConsistent ==
    (bs.pc = "done" /\ ~bs.failed) =>
        /\ bs.result.value.todaysNumbersSold <= bs.result.value.totalNumbersSold
        /\ bs.result.value.todaysNumbersSold <= bs.result.value.todaysTransactions
        /\ bs.result.value.todaysUsers <= bs.result.value.totalUsers

-----------------------------------------------------------------------------
\* C28: in every successful report the services and the servers kind are
\* synced with equal bot and website counts, whatever was inserted into or
\* deleted from those collections while the counts were read
C28_SameCollectionSynced ==
    SyncSucceeded =>
        \A kind \in {"services", "servers"} :
            /\ sync.result.data[kind].synced
            /\ sync.result.data[kind].bot = sync.result.data[kind].website

-----------------------------------------------------------------------------
(* Specification of updateFlags calls with getFlags calls running beside them *)

\* the bodies POST /manage-flags passes on: objects, so no country twice
FlagsDataInputs ==
    {<<>>,
     <<[country |-> "India", flag |-> "xx"]>>,
     <<[country |-> "Nepal", flag |-> "NP"], [country |-> "India", flag |-> "IN"]>>}

InitUpdateFlags ==
    /\ now = 0
    /\ botWrites = 0
    /\ users = <<>>
    /\ website_users = <<>>
    /\ services = <<>>
    /\ servers = <<>>
    /\ stats = <<>>
    /\ sync = SyncIdle
    /\ openClients = 0
    /\ response = NoResponse
    /\ client = 1
    /\ db = 1
    /\ isConnected = TRUE
    /\ clients = OneClientConnected
    /\ dbInitialized = TRUE
    /\ closing = 0
    /\ call = [p \in Requests |-> CallIdle]
    /\ flags \in StoredFlags
    /\ gf = [c \in Callers |-> FlagsIdle]
    /\ dd = DashboardIdle
    /\ api = ApiIdle
    /\ ids = 0
    /\ settings = <<>>
    /\ gs = [c \in Callers |-> SettingsIdle]
    /\ uf = UpdateFlagsIdle
    /\ bs = BotStatsIdle
    /\ req = [p \in Requests |-> RequestIdle]
    /\ sinceLast = "none"

NextUpdateFlags ==
    \/ \E F \in FlagsDataInputs : Len(flags) <= MaxFlags /\ UpdateFlags(F)
    \/ UpdateFlagsDeleteResolves
    \/ UpdateFlagsInsertResolves
    \/ UpdateFlagsRejects
    \/ \E c \in Callers : Len(flags) <= MaxFlags /\ GetFlags(c)
    \/ \E c \in Callers : FlagsFindResolves(c)
    \/ \E c \in Callers : FlagsInsertResolves(c)
    \/ \E c \in Callers : FlagsCallRejects(c)

SpecUpdateFlags == InitUpdateFlags /\ [][NextUpdateFlags]_vars

\* an updateFlags call returns its success value in this step
UpdateFlagsCompletes ==
    /\ uf.pc # "done"
    /\ uf'.pc = "done"
    /\ uf'.outcome.t = "return"

\* the (country, glyph) pairs of the documents, or of the entries of an argument
PairsOf(docs) == {<<docs[i].country, docs[i].flag>> : i \in 1..Len(docs)}

\* C29: when updateFlags(F) returns, the flags collection holds one document
\* for each (country, glyph) entry of F and no other, whatever getFlags calls
\* ran beside it
C29_ExactlyTheGivenFlags ==
    [][UpdateFlagsCompletes =>
           /\ Len(flags') = Len(uf'.arg)
           /\ PairsOf(flags') = PairsOf(uf'.arg)]_vars

-----------------------------------------------------------------------------
(* Specification of getSyncStatus in which every awaited promise settles: the
   client is created with serverSelectionTimeoutMS, connectTimeoutMS and
   socketTimeoutMS, so no connect, count, find or close stays pending *)

SyncStep ==
    \/ ConnectToDatabaseOk
    \/ ConnectToDatabaseFail
    \/ \E k \in CountNames : SyncCountOk(k)
    \/ \E k \in CountNames : SyncCountFail(k)
    \/ \E kind \in {"users", "services", "servers"} : SyncFindOk(kind)
    \/ \E kind \in {"users", "services", "servers"} : SyncFindFail(kind)
    \/ SyncFinally

SpecSyncFair == InitSync /\ [][NextSync]_vars /\ WF_vars(SyncStep)

\* C30: a client that getSyncStatus opened is closed when getSyncStatus has
\* returned, with a report or with the error result, and every client it
\* opened is closed at some point: none stays open
C30_ClientClosed ==
    /\ [](sync.pc = "done" => openClients = 0)
    /\ [](openClients > 0 => <>(openClients = 0))

\* a read failed after the client was opened, and the client has been closed
C30_Witness ==
    /\ sync.pc = "done"
    /\ sync.client
    /\ sync.failed
    /\ sync.cause.message = "count failed"
    /\ openClients = 0
====
